---- MODULE Spec2Model ----
(***************************************************************************)
(* The request-routing core (mux) of the HTTP server object:               *)
(* pkg/object/httpserver/mux.go.  A mux holds one atomically replaced      *)
(* pointer to a muxInstance; reload compiles a Spec into a new instance    *)
(* and stores it; ServeHTTP loads the pointer once and serves the request  *)
(* on that instance (span, search with route cache, dispatch).             *)
(*                                                                         *)
(* Strings are sequences of tokens, so that concatenation (the cache key), *)
(* prefix tests and host:port splitting are computed, not assumed.         *)
(***************************************************************************)
EXTENDS Naturals, Sequences, FiniteSets, TLC

VARIABLES
    cur,        \* mux.inst: the id of the published muxInstance
    insts,      \* the muxInstance objects ever allocated, by id
    hdrInit,    \* per Spec object: writes of Header.headerRE by initHeaderRoute
    closed,     \* the tracers on which Close() has been called
    nTracers,   \* tracers created by tracing.New so far
    rl,         \* the goroutine running mux.reload
    reloads,    \* reload calls started so far
    th,         \* the goroutines running mux.ServeHTTP
    budget,     \* ServeHTTP calls still to come
    prev,       \* history: the last search that returned (kept by the sequential runs)
    gwLock,     \* Gateway's sync.Mutex: "free" or the caller that holds it
    pipelines,  \* Gateway.pipelines: pipeline name -> its pipelineInstances (ids)
    pis,        \* the pipelineInstance objects ever allocated, with their run loops
    gwDone,     \* Gateway.done: a chan error of capacity 1
    call,       \* the goroutines calling the Gateway's operations
    calls,      \* calls of Gateway operations started so far
    got,        \* what the receiver of the channel Run returned has received
    servers     \* the httpServerConstructor calls with their serve goroutines

muxvars == <<cur, insts, hdrInit, closed, nTracers, rl, reloads, th, budget, prev>>
gwvars == <<gwLock, pipelines, pis, gwDone, call, calls, got>>
hsvars == <<servers>>
vars == <<muxvars, gwvars, hsvars>>

-----------------------------------------------------------------------------
(* Bounds *)

MaxReloads == 2
MaxServed == 2
MaxSearches == 2
MaxCalls == 3
MaxInstances == 1
MaxServers == 2

Threads == {"t1", "t2"}

\* The goroutines that call the Gateway's operations.
Callers == {"c1", "c2"}

-----------------------------------------------------------------------------
(* Values *)

Nil == "nil"

StatusOK == 200
StatusBadRequest == 400
StatusForbidden == 403
StatusNotFound == 404
StatusMethodNotAllowed == 405
StatusServiceUnavailable == 503

\* A *MuxPath is a pointer into an instance's rule list:
\* <<instance id, rule index, path index>>; the nil pointer is <<>>.
NilPath == <<>>

\* A *route; isNil marks the nil pointer.
Route(c, ref) == [isNil |-> FALSE, code |-> c, path |-> ref]
NilRoute == [isNil |-> TRUE, code |-> 0, path |-> NilPath]

notFound == Route(StatusNotFound, NilPath)
forbidden == Route(StatusForbidden, NilPath)
methodNotAllowed == Route(StatusMethodNotAllowed, NilPath)
badRequest == Route(StatusBadRequest, NilPath)

HasPrefix(s, p) == Len(p) <= Len(s) /\ SubSeq(s, 1, Len(p)) = p

\* stringtool.Cat: plain concatenation, no separator.
Cat(a, b, c) == a \o b \o c

\* net.SplitHostPort as search uses it: the part before the last colon; a
\* host without a colon is an error and the host is kept as it is.
LastColon(h) ==
    LET cs == {i \in 1..Len(h) : h[i] = ":"}
    IN IF cs = {} THEN 0 ELSE CHOOSE i \in cs : \A j \in cs : j <= i

StripPort(h) == IF LastColon(h) = 0 THEN h ELSE SubSeq(h, 1, LastColon(h) - 1)

-----------------------------------------------------------------------------
(* The inputs: hosts, methods, paths, headers, client addresses *)

hostA == <<"a">>
hostAPort == <<"a", ":", "80">>
hostB == <<"b">>
hostAG == <<"a", "G">>

\* Methods; net/http takes any token as a method, ET is one.
GET == <<"G", "ET">>
PUT == <<"PUT">>
ET == <<"ET">>

pathX == <<"/", "x">>
pathH == <<"/", "h">>
pathZ == <<"/", "z">>
pathHX == <<"/", "h", "/", "x">>
pathR == <<"/", "r">>
AcmePrefix == <<"/", ".well-known/acme-challenge", "/">>
pathAcme == AcmePrefix \o <<"tok">>

IPs == {"ip1", "ip2", "ip3", "ip4"}

EmptyStr == <<>>
NoHeader == [k \in {"X-Test"} |-> EmptyStr]
HeaderT1 == [k \in {"X-Test"} |-> <<"t1">>]
HeaderT2 == [k \in {"X-Test"} |-> <<"t2">>]

\* The first value of each key of the URL query; the path and the cache key
\* do not hold the query.
NoQuery == [k \in {"q"} |-> EmptyStr]
QueryV1 == [k \in {"q"} |-> <<"v1">>]
QueryV9 == [k \in {"q"} |-> <<"v9">>]

\* The values of the X-Forwarded-For header, one string for each header line:
\* none, one empty value, one or two addresses in one value, two values.
NoXFF == <<>>
XFFValues ==
    { NoXFF, <<EmptyStr>>, <<<<"ip4">>>>, <<<<"ip3">>>>, <<<<"ip3", ",", "ip4">>>>,
      <<<<"ip3">>, <<"ip4">>>> }

ReqX(h, m, p, hd, ip, q, x) ==
    [host |-> h, method |-> m, path |-> p, header |-> hd, ip |-> ip, query |-> q,
     xff |-> x]

ReqQ(h, m, p, hd, ip, q) == ReqX(h, m, p, hd, ip, q, NoXFF)

Req(h, m, p, hd, ip) == ReqQ(h, m, p, hd, ip, NoQuery)

\* The requests of the concurrent runs.
Requests ==
    { Req(hostA, GET, pathX, NoHeader, "ip4"),
      Req(hostAPort, GET, pathH, HeaderT1, "ip4"),
      Req(hostA, GET, pathAcme, NoHeader, "ip4") }

\* The requests of the sequential runs on one instance.
SearchRequests ==
    { Req(h, m, p, hd, "ip4") : h \in {hostA, hostB}, m \in {GET, PUT},
                                p \in {pathX, pathH, pathZ}, hd \in {NoHeader, HeaderT1} }
    \cup { Req(hostA, GET, pathX, NoHeader, ip) : ip \in IPs }
    \cup { Req(hostAPort, GET, pathH, HeaderT1, "ip4"),
           Req(hostA, GET, pathH, HeaderT2, "ip4"),
           Req(hostA, GET, pathX, HeaderT1, "ip3"),
           ReqQ(hostA, GET, pathZ, NoHeader, "ip4", QueryV1),
           ReqQ(hostA, GET, pathZ, NoHeader, "ip4", QueryV9),
           Req(hostA, GET, pathAcme, NoHeader, "ip4"),
           Req(hostA, GET, pathHX, NoHeader, "ip4"),
           Req(hostA, GET, pathX, HeaderT1, "ip2"),
           Req(hostA, GET, pathZ, NoHeader, "ip3"),
           ReqQ(hostA, GET, pathZ, NoHeader, "ip3", QueryV1),
           Req(hostAG, ET, pathX, NoHeader, "ip4") }
    \cup { ReqX(hostA, GET, pathX, NoHeader, "ip4", NoQuery, x) : x \in XFFValues }

\* realip.FromRequest: the client address the request carries.
RealIP(req) == req.ip

-----------------------------------------------------------------------------
(* Regular expressions: a pattern compiles to the set of strings it       *)
(* matches; a pattern that does not compile yields the nil *Regexp.         *)

NilRE == [isNil |-> TRUE, lang |-> {}]
RE(l) == [isNil |-> FALSE, lang |-> l]

RegexpLib ==
    [p \in {"^/z$", "^[ab]$", "^t[0-9]$", "("} |->
        CASE p = "^/z$" -> RE({pathZ})
          [] p = "^[ab]$" -> RE({hostA, hostB})
          [] p = "^t[0-9]$" -> RE({<<"t1">>, <<"t2">>})
          [] OTHER -> NilRE]

\* regexp.Compile as newMuxRule and newMuxPath call it (only for p # "").
RegexpCompile(p) == RegexpLib[p]

MatchString(re, s) == s \in re.lang

-----------------------------------------------------------------------------
(* The Spec objects reload may be given *)

\* A nil *ipfilter.Spec, and one that blocks the given addresses.
NoFilter == [isNil |-> TRUE, allow |-> {}, block |-> {}]
Filter(al, bl) == [isNil |-> FALSE, allow |-> al, block |-> bl]
Block(ips) == Filter({}, ips)

Hdr(k, vs, re) == [key |-> k, values |-> vs, regexp |-> re]

\* A Path with every field: all is matchAllHeader, qs the queries.
PathSpecAll(p, pp, pre, ms, hs, all, qs, rw, be, f) ==
    [path |-> p, pathPrefix |-> pp, pathRegexp |-> pre, methods |-> ms,
     headers |-> hs, matchAllHeader |-> all, queries |-> qs,
     rewriteTarget |-> rw, backend |-> be, ipFilter |-> f]

PathSpec(p, pp, pre, ms, hs, rw, be, f) ==
    PathSpecAll(p, pp, pre, ms, hs, FALSE, <<>>, rw, be, f)

RuleSpec(h, hre, f, ps) == [host |-> h, hostRegexp |-> hre, ipFilter |-> f, paths |-> ps]

\* &Spec{}: the spec of the instance newMux stores.
EmptySpec ==
    [ipFilter |-> NoFilter, cacheSize |-> 0, tracing |-> Nil, xForwardedFor |-> FALSE,
     rules |-> <<>>]

SpecObjs ==
    << [ipFilter |-> Block({"ip1"}), cacheSize |-> 2, tracing |-> Nil,
        xForwardedFor |-> FALSE,
        rules |-> <<
          RuleSpec(hostA, "", Block({"ip2"}), <<
            PathSpec(pathX, EmptyStr, "", {}, <<>>, EmptyStr, "x1", NoFilter),
            PathSpec(pathX, EmptyStr, "", {}, <<>>, EmptyStr, "x2", Block({"ip3"})),
            PathSpec(pathH, EmptyStr, "", {GET}, <<Hdr("X-Test", {<<"t1">>}, "")>>,
                     EmptyStr, "h", NoFilter) >>) >>],
       [ipFilter |-> NoFilter, cacheSize |-> 1, tracing |-> "zipkin",
        xForwardedFor |-> FALSE,
        rules |-> <<
          RuleSpec(EmptyStr, "^[ab]$", Block({"ip2"}), <<
            PathSpec(EmptyStr, EmptyStr, "^/z$", {PUT}, <<>>, EmptyStr, "z", NoFilter),
            PathSpec(EmptyStr, <<"/", "h">>, "", {}, <<Hdr("X-Test", {}, "^t[0-9]$")>>,
                     EmptyStr, "h", NoFilter) >>),
          RuleSpec(EmptyStr, "", NoFilter, <<
            PathSpec(EmptyStr, EmptyStr, "", {}, <<>>, EmptyStr, "any", NoFilter) >>) >>],
       [ipFilter |-> NoFilter, cacheSize |-> 1, tracing |-> Nil,
        xForwardedFor |-> FALSE,
        rules |-> <<
          RuleSpec(hostA, "", Block({"ip2"}), <<
            PathSpecAll(pathH, EmptyStr, "", {GET},
                        <<Hdr("X-Test", {<<"t1">>}, ""), Hdr("X-Test", {}, "^t[0-9]$")>>,
                        TRUE, <<>>, EmptyStr, "h", NoFilter),
            PathSpecAll(pathZ, EmptyStr, "", {}, <<>>, FALSE,
                        <<Hdr("q", {<<"v1">>}, "")>>, EmptyStr, "gone", Block({"ip3"})),
            PathSpec(pathX, EmptyStr, "", {}, <<Hdr("X-Test", {<<"t1">>}, "")>>,
                     EmptyStr, "x1", Block({"ip3"})),
            PathSpec(pathX, EmptyStr, "", {}, <<Hdr("X-Test", {<<"t1">>}, "")>>,
                     EmptyStr, "x2", NoFilter) >>) >>],
       [ipFilter |-> NoFilter, cacheSize |-> 0, tracing |-> Nil,
        xForwardedFor |-> FALSE,
        rules |-> <<
          RuleSpec(EmptyStr, "(", Block({"ip2"}), <<
            PathSpec(EmptyStr, EmptyStr, "(", {PUT}, <<>>, EmptyStr, "z", NoFilter) >>) >>],
       [ipFilter |-> NoFilter, cacheSize |-> 3, tracing |-> Nil,
        xForwardedFor |-> TRUE,
        rules |-> <<
          RuleSpec(hostA, "", Block({"ip2"}), <<
            PathSpec(pathX, EmptyStr, "", {}, <<>>, pathR, "x1", Block({"ip3"})),
            PathSpec(EmptyStr, pathH, "", {}, <<>>, pathR, "h", Block({"ip3"})),
            PathSpec(EmptyStr, EmptyStr, "^/z$", {}, <<>>, pathR, "z", Block({"ip3"})) >>) >>],
       [ipFilter |-> NoFilter, cacheSize |-> 2, tracing |-> Nil,
        xForwardedFor |-> FALSE,
        rules |-> <<
          RuleSpec(hostA, "", Block({"ip2"}), <<
            PathSpec(pathX, EmptyStr, "", {PUT}, <<>>, EmptyStr, "x1", NoFilter),
            PathSpec(pathZ, EmptyStr, "", {}, <<>>, EmptyStr, "z", Block({"ip1"})) >>),
          RuleSpec(hostA, "", Block({"ip3"}), <<
            PathSpec(pathX, EmptyStr, "", {}, <<Hdr("X-Test", {<<"t1">>}, "")>>,
                     EmptyStr, "x2", NoFilter),
            PathSpec(pathZ, EmptyStr, "", {}, <<Hdr("X-Test", {<<"t1">>}, "")>>,
                     EmptyStr, "z", NoFilter) >>) >>],
       [ipFilter |-> Block({"ip2"}), cacheSize |-> 1, tracing |-> Nil,
        xForwardedFor |-> FALSE,
        rules |-> <<>>] >>

SpecIds == 1..Len(SpecObjs)

\* The Spec objects the concurrent runs reload.
ReloadSpecIds == {1, 2}

SpecOf(s) == IF s = 0 THEN EmptySpec ELSE SpecObjs[s]

-----------------------------------------------------------------------------
(* IP filters (pkg/util/ipfilter) *)

\* IPFilter.Allow on a filter that exists: denied when blocked, denied when
\* an allow list is given and does not hold the address, allowed otherwise.
Allow(f, ip) ==
    IF ip \in f.block THEN FALSE
    ELSE IF f.allow # {} /\ ip \notin f.allow THEN FALSE
    ELSE TRUE

\* allowIP: a nil filter allows every address.
allowIP(f, ip) == IF f.isNil THEN TRUE ELSE Allow(f, ip)

NilChain == [isNil |-> TRUE, filters |-> <<>>]

newIPFilter(spec) == spec

ChainOf(fs) == IF Len(fs) = 0 THEN NilChain ELSE [isNil |-> FALSE, filters |-> fs]

\* What a constructor that returned the empty chain as a chain would give.
newIPFilterChainNoNil(parent, childSpec) ==
    LET base == IF parent.isNil THEN <<>> ELSE parent.filters
    IN [isNil |-> FALSE,
        filters |-> IF childSpec.isNil THEN base ELSE Append(base, childSpec)]

\* newIPFilterChain returns nil if the number of final filters is zero.
newIPFilterChain(parent, childSpec) ==
    LET base == IF parent.isNil THEN <<>> ELSE parent.filters
    IN ChainOf(IF childSpec.isNil THEN base ELSE Append(base, childSpec))

-----------------------------------------------------------------------------
(* The rule compiler *)

newMuxPath(parentIPFilters, path) ==
    [ipFilter |-> newIPFilter(path.ipFilter),
     ipFilterChain |-> newIPFilterChain(parentIPFilters, path.ipFilter),
     path |-> path.path,
     pathPrefix |-> path.pathPrefix,
     pathRegexp |-> path.pathRegexp,
     pathRE |-> IF path.pathRegexp # "" THEN RegexpCompile(path.pathRegexp) ELSE NilRE,
     rewriteTarget |-> path.rewriteTarget,
     methods |-> path.methods,
     backend |-> path.backend,
     headers |-> path.headers]

NilRule ==
    [isNil |-> TRUE, ipFilter |-> NoFilter, ipFilterChain |-> NilChain,
     host |-> EmptyStr, hostRegexp |-> "", hostRE |-> NilRE, paths |-> <<>>]

newMuxRule(parentIPFilters, rule, paths) ==
    [isNil |-> FALSE,
     ipFilter |-> newIPFilter(rule.ipFilter),
     ipFilterChain |-> newIPFilterChain(parentIPFilters, rule.ipFilter),
     host |-> rule.host,
     hostRegexp |-> rule.hostRegexp,
     hostRE |-> IF rule.hostRegexp # "" THEN RegexpCompile(rule.hostRegexp) ELSE NilRE,
     paths |-> paths]

\* What a pass that gave the paths the server's chain, not the rule's, would
\* build.
CompileRuleFlat(ipFilterChan, specRule) ==
    LET paths == [j \in 1..Len(specRule.paths) |->
                    newMuxPath(ipFilterChan, specRule.paths[j])]
    IN newMuxRule(ipFilterChan, specRule, paths)

\* One pass of reload's loop over the rules: the rule at index i.
CompileRule(ipFilterChan, specRule) ==
    LET ruleIPFilterChain == newIPFilterChain(ipFilterChan, specRule.ipFilter)
        paths == [j \in 1..Len(specRule.paths) |->
                    newMuxPath(ruleIPFilterChain, specRule.paths[j])]
    IN newMuxRule(ipFilterChan, specRule, paths)

\* The whole rule list of a spec, as reload leaves it after its loop.
CompileRules(spec) ==
    [i \in 1..Len(spec.rules) |->
        CompileRule(newIPFilterChain(NilChain, spec.ipFilter), spec.rules[i])]

-----------------------------------------------------------------------------
(* Matching *)

\* A match that tests the pattern text, not the compiled expression: a rule
\* whose only host predicate does not compile matches no host.
RuleMatchByPattern(mr, req) ==
    IF mr.host = EmptyStr /\ mr.hostRegexp = "" THEN TRUE
    ELSE LET host == StripPort(req.host)
         IN IF mr.host # EmptyStr /\ mr.host = host THEN TRUE
            ELSE IF ~mr.hostRE.isNil /\ MatchString(mr.hostRE, host) THEN TRUE
            ELSE FALSE

\* A match that compares the request host as it is, port and all.
RuleMatchWithPort(mr, req) ==
    IF mr.host = EmptyStr /\ mr.hostRE.isNil THEN TRUE
    ELSE IF mr.host # EmptyStr /\ mr.host = req.host THEN TRUE
    ELSE IF ~mr.hostRE.isNil /\ MatchString(mr.hostRE, req.host) THEN TRUE
    ELSE FALSE

RuleMatch(mr, req) ==
    IF mr.host = EmptyStr /\ mr.hostRE.isNil THEN TRUE
    ELSE LET host == StripPort(req.host)
         IN IF mr.host # EmptyStr /\ mr.host = host THEN TRUE
            ELSE IF ~mr.hostRE.isNil /\ MatchString(mr.hostRE, host) THEN TRUE
            ELSE FALSE

\* A match that asks whether a path_regexp was declared, not whether it
\* compiled: a path whose only predicate does not compile matches no path.
matchPathByPattern(mp, req) ==
    IF mp.path = EmptyStr /\ mp.pathPrefix = EmptyStr /\ mp.pathRegexp = "" THEN TRUE
    ELSE IF mp.path # EmptyStr /\ mp.path = req.path THEN TRUE
    ELSE IF mp.pathPrefix # EmptyStr /\ HasPrefix(req.path, mp.pathPrefix) THEN TRUE
    ELSE IF ~mp.pathRE.isNil THEN MatchString(mp.pathRE, req.path)
    ELSE FALSE

matchPath(mp, req) ==
    IF mp.path = EmptyStr /\ mp.pathPrefix = EmptyStr /\ mp.pathRE.isNil THEN TRUE
    ELSE IF mp.path # EmptyStr /\ mp.path = req.path THEN TRUE
    ELSE IF mp.pathPrefix # EmptyStr /\ HasPrefix(req.path, mp.pathPrefix) THEN TRUE
    ELSE IF ~mp.pathRE.isNil THEN MatchString(mp.pathRE, req.path)
    ELSE FALSE

matchMethod(mp, req) ==
    IF mp.methods = {} THEN TRUE ELSE req.method \in mp.methods

\* One header predicate, as the loop body of matchHeaders tests it; the
\* compiled headerRE is the one initHeaderRoute stored in the Header.
HeaderHit(h, req) ==
    LET v == req.header[h.key]
    IN \/ v \in h.values
       \/ h.regexp # "" /\ MatchString(RegexpCompile(h.regexp), v)

\* matchHeaders: true at the first predicate that hits, false when the loop
\* ends, also when there is no predicate at all.
matchHeaders(mp, req) == \E k \in 1..Len(mp.headers) : HeaderHit(mp.headers[k], req)

-----------------------------------------------------------------------------
(* The route cache (an lru.ARCCache, or nil when cacheSize is 0) *)

CacheKey(req) == Cat(req.host, req.method, req.path)

\* getCacheRoute: the stored route, or nil.
getCacheRoute(mi, req) ==
    IF mi.hasCache /\ CacheKey(req) \in DOMAIN mi.cache
    THEN mi.cache[CacheKey(req)]
    ELSE NilRoute

Without(c, k) == [x \in DOMAIN c \ {k} |-> c[x]]

\* ARCCache.Add: the caches one Add can leave.  A key already held is
\* updated; a new key is added, and at capacity one held entry is evicted
\* first (which one is the library's choice).
CacheAdd(c, cap, k, r) ==
    IF k \in DOMAIN c THEN {[c EXCEPT ![k] = r]}
    ELSE IF Cardinality(DOMAIN c) < cap THEN {(k :> r) @@ c}
    ELSE {(k :> r) @@ Without(c, v) : v \in DOMAIN c}

\* What a put that neither asks whether the instance has a cache nor bounds
\* it would leave.
putRoutesToCacheUnbounded(mi, cap, req, puts) ==
    IF Len(puts) = 0 THEN {mi.cache}
    ELSE {(CacheKey(req) :> puts[Len(puts)]) @@ mi.cache}

\* putRouteToCache, for the routes one search puts under its key, in order.
\* After the first Add the key is held, so the later ones replace its value.
putRoutesToCache(mi, cap, req, puts) ==
    IF ~mi.hasCache \/ Len(puts) = 0 THEN {mi.cache}
    ELSE CacheAdd(mi.cache, cap, CacheKey(req), puts[Len(puts)])

-----------------------------------------------------------------------------
(* muxInstance.search *)

PathAt(heap, ref) == heap[ref[1]].rules[ref[2]].paths[ref[3]]

\* What search returns and the routes it has put; at names the IP gate a
\* forbidden was returned at ("cache", "server", "rule", "path"), else "".
ReturnedAt(g, r, puts) == [panic |-> FALSE, route |-> r, puts |-> puts, at |-> g]
Returned(r, puts) == ReturnedAt("", r, puts)
Panicked(puts) == [panic |-> TRUE, route |-> NilRoute, puts |-> puts, at |-> ""]

\* The cache probe: what search does with a route found in the cache.
SearchHit(heap, r, ip) ==
    IF r.code # StatusOK THEN Returned(r, <<>>)
    ELSE IF PathAt(heap, r.path).ipFilterChain.isNil THEN Returned(r, <<>>)
    ELSE IF PathAt(heap, r.path).ipFilter.isNil THEN Panicked(<<>>)
    ELSE IF Allow(PathAt(heap, r.path).ipFilter, ip) THEN Returned(r, <<>>)
    ELSE ReturnedAt("cache", forbidden, <<>>)

\* What a fallback that returns its verdict without caching it would do.
SearchFallbackUncached(st) ==
    IF st.headerMismatch THEN Returned(badRequest, st.puts)
    ELSE IF st.methodMismatch THEN Returned(methodNotAllowed, st.puts)
    ELSE Returned(notFound, st.puts)

\* The end of search, after the loop over the rules.
SearchFallback(st) ==
    IF st.headerMismatch THEN Returned(badRequest, st.puts)
    ELSE IF st.methodMismatch
         THEN Returned(methodNotAllowed, Append(st.puts, methodNotAllowed))
    ELSE Returned(notFound, Append(st.puts, notFound))

RECURSIVE SearchRules(_, _, _, _, _)
RECURSIVE SearchPaths(_, _, _, _, _, _)

\* The loop over host.paths, from path j of rule i on.  st holds search's
\* locals: r, headerMismatch, methodMismatch, and the routes put so far.
SearchPaths(id, mi, req, i, j, st) ==
    IF j > Len(mi.rules[i].paths) THEN SearchRules(id, mi, req, i + 1, st)
    ELSE LET path == mi.rules[i].paths[j]
             ok == Route(StatusOK, <<id, i, j>>)
             st1 == IF Len(path.headers) = 0
                    THEN [st EXCEPT !.r = ok, !.puts = Append(@, ok)]
                    ELSE st
         IN IF ~matchPath(path, req) THEN SearchPaths(id, mi, req, i, j + 1, st)
            ELSE IF ~matchMethod(path, req)
                 THEN SearchPaths(id, mi, req, i, j + 1, [st EXCEPT !.methodMismatch = TRUE])
            ELSE IF ~matchHeaders(path, req)
                 THEN SearchPaths(id, mi, req, i, j + 1, [st1 EXCEPT !.headerMismatch = TRUE])
            ELSE IF ~allowIP(path.ipFilter, RealIP(req))
                 THEN ReturnedAt("path", forbidden, st1.puts)
            ELSE Returned(st1.r, st1.puts)

\* What a loop that goes on to the next rule when a rule's filter denies the
\* client would do.
SearchRulesSkipDenied(id, mi, req, i, st) ==
    IF i > Len(mi.rules) THEN SearchFallback(st)
    ELSE LET host == mi.rules[i]
         IN IF ~RuleMatch(host, req) THEN SearchRules(id, mi, req, i + 1, st)
            ELSE IF host.ipFilter.isNil THEN Panicked(st.puts)
            ELSE IF ~Allow(host.ipFilter, RealIP(req))
                 THEN SearchRules(id, mi, req, i + 1, st)
            ELSE SearchPaths(id, mi, req, i, 1, st)

\* The loop over mi.rules, from rule i on.
SearchRules(id, mi, req, i, st) ==
    IF i > Len(mi.rules) THEN SearchFallback(st)
    ELSE LET host == mi.rules[i]
         IN IF ~RuleMatch(host, req) THEN SearchRules(id, mi, req, i + 1, st)
            ELSE IF host.ipFilter.isNil THEN Panicked(st.puts)
            ELSE IF ~Allow(host.ipFilter, RealIP(req))
                 THEN ReturnedAt("rule", forbidden, st.puts)
            ELSE SearchPaths(id, mi, req, i, 1, st)

SearchLocals ==
    [r |-> NilRoute, headerMismatch |-> FALSE, methodMismatch |-> FALSE, puts |-> <<>>]

\* What a miss that goes to the rules without the server-level gate would do.
SearchMissUngated(id, mi, req) == SearchRules(id, mi, req, 1, SearchLocals)

\* search after a cache miss: the server-level gate, then the rules.
SearchMiss(id, mi, req) ==
    IF ~allowIP(mi.ipFilter, RealIP(req)) THEN ReturnedAt("server", forbidden, <<>>)
    ELSE SearchRules(id, mi, req, 1, SearchLocals)

-----------------------------------------------------------------------------
(* Tracing (pkg/tracing): tracer 0 is tracing.NoopTracing *)

NoopTracing == 0

\* Tracing.Close: the noop tracer has nothing to close.
CloseTracer(cl, tr) == IF tr = NoopTracing THEN cl ELSE cl \cup {tr}

-----------------------------------------------------------------------------
(* The state after newMux *)

\* The handlers the MuxMapper knows.
Handlers == {"x1", "x2", "h", "z"}

InitialInstance ==
    [spec |-> 0, hasCache |-> FALSE, cache |-> <<>>, tracer |-> NoopTracing,
     ipFilter |-> NoFilter, ipFilterChan |-> NilChain, rules |-> <<>>]

IdleReq == Req(EmptyStr, EmptyStr, EmptyStr, NoHeader, "")

RlIdle == [pc |-> "idle", spec |-> 0, oldInst |-> 0, inst |-> 0, i |-> 0, closeOld |-> FALSE]

\* hit: search returned from the cache probe; used: the instances whose
\* rules, filters or cache the search has read or written.
ThIdle ==
    [pc |-> "idle", req |-> IdleReq, mi |-> 0, used |-> {}, hit |-> FALSE,
     route |-> NilRoute, panicked |-> FALSE, status |-> 0, path |-> EmptyStr,
     handler |-> "", at |-> "", xff |-> NoXFF]

NoPrev ==
    [on |-> FALSE, any |-> FALSE, req |-> IdleReq, mi |-> 0, hit |-> FALSE,
     route |-> NilRoute, panicked |-> FALSE]

\* NewGateway: no pipeline, an open done channel with nothing in it; no
\* operation has been called.
CallIdle ==
    [op |-> "", pc |-> "", i |-> 0, pipes |-> <<>>, err |-> "", last |-> <<"", "">>]

GatewayInit ==
    /\ gwLock = "free"
    /\ pipelines = <<>>
    /\ pis = <<>>
    /\ gwDone = [closed |-> FALSE, buf |-> <<>>]
    /\ call = [c \in Callers |-> CallIdle]
    /\ calls = 0
    /\ got = <<>>

\* No http server plugin has been constructed.
ServersInit == servers = <<>>

Init ==
    /\ cur = 1
    /\ insts = <<InitialInstance>>
    /\ hdrInit = [s \in SpecIds |-> 0]
    /\ closed = {}
    /\ nTracers = 0
    /\ rl = RlIdle
    /\ reloads = 0
    /\ th = [t \in Threads |-> ThIdle]
    /\ budget = MaxServed
    /\ prev = NoPrev
    /\ GatewayInit
    /\ ServersInit

-----------------------------------------------------------------------------
(* mux.reload *)

\* reload up to the allocation of the new instance: the tracer, the filters,
\* the cache and the rule slice with its slots still nil.  newErr is
\* tracing.New failing.
ReloadBegin(s, newErr) ==
    /\ rl.pc = "idle"
    /\ reloads < MaxReloads
    /\ LET spec == SpecOf(s)
           oldInst == insts[cur]
           differs == SpecOf(oldInst.spec).tracing # spec.tracing
           fresh == differs /\ spec.tracing # Nil /\ ~newErr
           tracer == IF differs THEN (IF fresh THEN nTracers + 1 ELSE NoopTracing)
                     ELSE oldInst.tracer
           inst == [spec |-> s,
                    hasCache |-> spec.cacheSize > 0,
                    cache |-> <<>>,
                    tracer |-> tracer,
                    ipFilter |-> newIPFilter(spec.ipFilter),
                    ipFilterChan |-> newIPFilterChain(NilChain, spec.ipFilter),
                    rules |-> [i \in 1..Len(spec.rules) |-> NilRule]]
       IN /\ insts' = Append(insts, inst)
          /\ nTracers' = IF fresh THEN nTracers + 1 ELSE nTracers
          /\ rl' = [pc |-> "build", spec |-> s, oldInst |-> cur,
                    inst |-> Len(insts) + 1, i |-> 1, closeOld |-> differs]
    /\ reloads' = reloads + 1
    /\ UNCHANGED <<cur, hdrInit, closed, th, budget, prev, gwvars, hsvars>>

RuleHasHeaders(specRule) ==
    \E j \in 1..Len(specRule.paths) : Len(specRule.paths[j].headers) > 0

\* One pass of the loop over the rules: newMuxPath for each path of the rule
\* (initHeaderRoute writes the compiled expression into each Header of the
\* Spec object), then newMuxRule.
ReloadRule ==
    /\ rl.pc = "build"
    /\ rl.i <= Len(insts[rl.inst].rules)
    /\ LET specRule == SpecOf(rl.spec).rules[rl.i]
       IN /\ insts' = [insts EXCEPT ![rl.inst].rules[rl.i] =
                            CompileRule(insts[rl.inst].ipFilterChan, specRule)]
          /\ hdrInit' = IF RuleHasHeaders(specRule)
                        THEN [hdrInit EXCEPT ![rl.spec] = @ + 1]
                        ELSE hdrInit
    /\ rl' = [rl EXCEPT !.i = @ + 1]
    /\ UNCHANGED <<cur, closed, nTracers, reloads, th, budget, prev, gwvars, hsvars>>

\* The instance whose pointer reload stores once its loop has ended.
StoredInst == rl.inst

\* m.inst.Store(inst)
ReloadStore ==
    /\ rl.pc = "build"
    /\ rl.i > Len(insts[rl.inst].rules)
    /\ cur' = StoredInst
    /\ rl' = IF rl.closeOld THEN [rl EXCEPT !.pc = "close"] ELSE RlIdle
    /\ UNCHANGED <<insts, hdrInit, closed, nTracers, reloads, th, budget, prev, gwvars, hsvars>>

\* The deferred oldInst.tracer.Close(), run as reload returns.
ReloadClose ==
    /\ rl.pc = "close"
    /\ closed' = CloseTracer(closed, insts[rl.oldInst].tracer)
    /\ rl' = RlIdle
    /\ UNCHANGED <<cur, insts, hdrInit, nTracers, reloads, th, budget, prev, gwvars, hsvars>>

-----------------------------------------------------------------------------
(* mux.ServeHTTP and muxInstance.serveHTTP *)

\* What ServeHTTP without the test of the path prefix would do.
ServeHTTPNoBypass(t, req) ==
    /\ th[t].pc = "idle"
    /\ budget > 0
    /\ th' = [th EXCEPT ![t] =
                [ThIdle EXCEPT !.pc = "serve", !.req = req, !.path = req.path, !.mi = cur]]
    /\ budget' = budget - 1
    /\ UNCHANGED <<cur, insts, hdrInit, closed, nTracers, rl, reloads, prev, gwvars, hsvars>>

\* ServeHTTP: the ACME bypass, else one load of the instance pointer.
ServeHTTP(t, req) ==
    /\ th[t].pc = "idle"
    /\ budget > 0
    /\ th' = [th EXCEPT ![t] =
                IF HasPrefix(req.path, AcmePrefix)
                THEN [ThIdle EXCEPT !.pc = "acme", !.req = req, !.path = req.path]
                ELSE [ThIdle EXCEPT !.pc = "serve", !.req = req, !.path = req.path,
                                    !.mi = cur]]
    /\ budget' = budget - 1
    /\ UNCHANGED <<cur, insts, hdrInit, closed, nTracers, rl, reloads, prev, gwvars, hsvars>>

\* autocertmanager.HandleHTTP01Challenge has answered; ServeHTTP returns.
AcmeReturn(t) ==
    /\ th[t].pc = "acme"
    /\ th' = [th EXCEPT ![t] = ThIdle]
    /\ UNCHANGED <<cur, insts, hdrInit, closed, nTracers, rl, reloads, budget, prev, gwvars, hsvars>>

\* serveHTTP up to the call of search: the span is created on mi.tracer.
NewSpan(t) ==
    /\ th[t].pc = "serve"
    /\ th' = [th EXCEPT ![t].pc = "search"]
    /\ UNCHANGED <<cur, insts, hdrInit, closed, nTracers, rl, reloads, budget, prev, gwvars, hsvars>>

\* What a search that loaded mux.inst again would run on.
SearchInstLoadedAgain(t) == cur

\* The instance search runs on: the receiver mi, bound when ServeHTTP loaded
\* the pointer.
SearchInst(t) == th[t].mi

\* search up to its return on a cache hit, or to the miss.
SearchProbe(t) ==
    /\ th[t].pc = "search"
    /\ LET id == SearchInst(t)
           r == getCacheRoute(insts[id], th[t].req)
           res == SearchHit(insts, r, RealIP(th[t].req))
       IN th' = [th EXCEPT ![t] =
                    IF r.isNil
                    THEN [@ EXCEPT !.pc = "scan", !.used = @ \cup {id}]
                    ELSE [@ EXCEPT !.pc = "route", !.used = @ \cup {id}, !.hit = TRUE,
                                   !.route = res.route, !.panicked = res.panic,
                                   !.at = res.at]]
    /\ UNCHANGED <<cur, insts, hdrInit, closed, nTracers, rl, reloads, budget, prev, gwvars, hsvars>>

\* What a cache shared through the mux would be written on.
PutInstPublished(t) == cur

\* The instance whose cache a search writes to: its receiver.
PutInst(t) == th[t].mi

\* search after the miss: the gates, the rules, the routes put to the cache.
SearchScan(t) ==
    /\ th[t].pc = "scan"
    /\ LET id == SearchInst(t)
           res == SearchMiss(id, insts[id], th[t].req)
           to == PutInst(t)
       IN /\ \E c \in putRoutesToCache(insts[to], SpecOf(insts[to].spec).cacheSize,
                                        th[t].req, res.puts) :
                insts' = [insts EXCEPT ![to].cache = c]
          /\ th' = [th EXCEPT ![t] =
                      [@ EXCEPT !.pc = "route", !.used = @ \cup {id, to},
                                !.route = res.route, !.panicked = res.panic,
                                !.at = res.at]]
    /\ UNCHANGED <<cur, hdrInit, closed, nTracers, rl, reloads, budget, prev, gwvars, hsvars>>

\* http.Header for one key: Get is the first value ("" when there is none),
\* Add appends a value, Set leaves the one value given.
HeaderGet(vs) == IF Len(vs) = 0 THEN EmptyStr ELSE vs[1]
HeaderAdd(vs, v) == Append(vs, v)
HeaderSet(vs, v) == <<v>>

\* strings.Contains
Contains(s, sub) ==
    \E i \in 1..(Len(s) + 1) :
        i + Len(sub) - 1 <= Len(s) /\ SubSeq(s, i, i + Len(sub) - 1) = sub

\* appendXForwardedFor on the values of the X-Forwarded-For header.
appendXForwardedFor(vs, ip) ==
    LET v == HeaderGet(vs)
    IN IF v = EmptyStr THEN HeaderAdd(vs, <<ip>>)
       ELSE IF ~Contains(v, <<ip>>) THEN HeaderSet(vs, Cat(v, <<",">>, <<ip>>))
       ELSE vs

\* wrapRequest once the body is read: the header the wrapped request holds.
wrapRequest(spec, req) ==
    IF spec.xForwardedFor THEN appendXForwardedFor(req.xff, RealIP(req)) ELSE req.xff

\* ReplaceAllString for the anchored expressions of RegexpLib and a target
\* without $-references: a string that matches is replaced whole.
ReplaceAllString(re, s, target) == IF MatchString(re, s) THEN target ELSE s

\* What a lookup that takes every backend for registered would answer.
GetHandlerAlways(backend) == TRUE

\* mi.muxMapper.GetHandler: whether the backend is registered.
GetHandler(backend) == backend \in Handlers

\* What writing a fixed not-found status would send.
WriteHeaderNotFound(route) == StatusNotFound

\* stdw.WriteHeader(route.code) for a verdict that is not OK.
WriteHeader(route) == route.code

\* serveHTTP after search: the status written, or the handoff (handler names
\* the backend whose handler, alone or under the global filter, is invoked).
\* A panic in search, or the nil route dereferenced by route.code, unwinds
\* serveHTTP.
\* wrapErr is wrapRequest failing to read the body.
Dispatch(t, wrapErr) ==
    /\ th[t].pc = "route"
    /\ LET route == th[t].route
           mp == PathAt(insts, route.path)
       IN th' = [th EXCEPT ![t] =
            IF th[t].panicked \/ route.isNil
                THEN [@ EXCEPT !.pc = "finish", !.panicked = TRUE]
            ELSE IF route.code # StatusOK
                THEN [@ EXCEPT !.pc = "finish", !.status = WriteHeader(route)]
            ELSE IF ~GetHandler(mp.backend)
                THEN [@ EXCEPT !.pc = "finish", !.status = StatusServiceUnavailable]
            ELSE LET path == IF ~mp.pathRE.isNil /\ mp.rewriteTarget # EmptyStr
                             THEN ReplaceAllString(mp.pathRE, th[t].path, mp.rewriteTarget)
                             ELSE th[t].path
                 IN IF wrapErr
                    THEN [@ EXCEPT !.pc = "finish", !.path = path,
                                   !.status = StatusBadRequest]
                    ELSE [@ EXCEPT !.pc = "finish", !.path = path, !.status = StatusOK,
                                   !.handler = mp.backend,
                                   !.xff = wrapRequest(SpecOf(insts[th[t].mi].spec),
                                                       th[t].req)]]
    /\ prev' = IF prev.on
               THEN [on |-> TRUE, any |-> TRUE, req |-> th[t].req, mi |-> th[t].mi,
                     hit |-> th[t].hit, route |-> th[t].route,
                     panicked |-> th[t].panicked]
               ELSE prev
    /\ UNCHANGED <<cur, insts, hdrInit, closed, nTracers, rl, reloads, budget, gwvars, hsvars>>

\* The deferred span.Finish and ctx.Finish; serveHTTP returns.
Finish(t) ==
    /\ th[t].pc = "finish"
    /\ th' = [th EXCEPT ![t] = ThIdle]
    /\ UNCHANGED <<cur, insts, hdrInit, closed, nTracers, rl, reloads, budget, prev, gwvars, hsvars>>

-----------------------------------------------------------------------------

Next ==
    \/ \E s \in ReloadSpecIds, newErr \in BOOLEAN : ReloadBegin(s, newErr)
    \/ ReloadRule
    \/ ReloadStore
    \/ ReloadClose
    \/ \E t \in Threads, req \in Requests : ServeHTTP(t, req)
    \/ \E t \in Threads : AcmeReturn(t)
    \/ \E t \in Threads : NewSpan(t)
    \/ \E t \in Threads : SearchProbe(t)
    \/ \E t \in Threads : SearchScan(t)
    \/ \E t \in Threads, wrapErr \in BOOLEAN : Dispatch(t, wrapErr)
    \/ \E t \in Threads : Finish(t)

Spec == Init /\ [][Next]_vars

-----------------------------------------------------------------------------
(* Sequential requests on one instance: the state after newMux and one     *)
(* reload of a Spec object, then ServeHTTP calls one after the other.       *)

RulesWithHeaders(spec) ==
    Cardinality({i \in 1..Len(spec.rules) : RuleHasHeaders(spec.rules[i])})

InitSearch ==
    \E s \in SpecIds :
        LET spec == SpecOf(s)
            traced == spec.tracing # Nil
        IN /\ cur = 2
           /\ insts = <<InitialInstance,
                        [spec |-> s,
                         hasCache |-> spec.cacheSize > 0,
                         cache |-> <<>>,
                         tracer |-> IF traced THEN 1 ELSE NoopTracing,
                         ipFilter |-> newIPFilter(spec.ipFilter),
                         ipFilterChan |-> newIPFilterChain(NilChain, spec.ipFilter),
                         rules |-> CompileRules(spec)]>>
           /\ hdrInit = [x \in SpecIds |-> IF x = s THEN RulesWithHeaders(spec) ELSE 0]
           /\ closed = {}
           /\ nTracers = IF traced THEN 1 ELSE 0
           /\ rl = RlIdle
           /\ reloads = 1
           /\ th = [t \in Threads |-> ThIdle]
           /\ budget = MaxSearches
           /\ prev = [NoPrev EXCEPT !.on = TRUE]
           /\ GatewayInit
           /\ ServersInit

NextSearch ==
    \/ \E req \in SearchRequests : ServeHTTP("t1", req)
    \/ AcmeReturn("t1")
    \/ NewSpan("t1")
    \/ SearchProbe("t1")
    \/ SearchScan("t1")
    \/ \E wrapErr \in BOOLEAN : Dispatch("t1", wrapErr)
    \/ Finish("t1")

SpecSearch == InitSearch /\ [][NextSearch]_vars

-----------------------------------------------------------------------------
(* Reloads of the Spec objects at the edges, with the requests of one       *)
(* client between and during them.                                          *)

\* The Spec objects these runs reload: the traced one, the one whose regular
\* expressions do not compile, the one without rules.
ReloadEdgeSpecIds == {2, 4, 7}

ReloadRequests ==
    { Req(hostA, GET, pathX, NoHeader, "ip4"),
      Req(hostB, PUT, pathZ, NoHeader, "ip4"),
      Req(hostA, GET, pathH, HeaderT1, "ip2"),
      Req(hostA, GET, pathH, HeaderT1, "ip4") }

NextReload ==
    \/ \E s \in ReloadEdgeSpecIds, newErr \in BOOLEAN : ReloadBegin(s, newErr)
    \/ ReloadRule
    \/ ReloadStore
    \/ ReloadClose
    \/ \E req \in ReloadRequests : ServeHTTP("t1", req)
    \/ NewSpan("t1")
    \/ SearchProbe("t1")
    \/ SearchScan("t1")
    \/ \E wrapErr \in BOOLEAN : Dispatch("t1", wrapErr)
    \/ Finish("t1")

SpecReload == Init /\ [][NextReload]_vars

-----------------------------------------------------------------------------
(* What the claims speak of *)

InFlight(t) == th[t].pc \in {"serve", "search", "scan", "route", "finish"}

\* search has returned (or panicked) and serveHTTP has not yet used the route.
SearchDone(t) == th[t].pc = "route"

\* The header step as the routing rules state it: a path without header
\* predicates passes, one with predicates passes when a predicate hits.
HeadersPass(mp, req) == Len(mp.headers) = 0 \/ matchHeaders(mp, req)

\* The paths of an instance that match a request on host, path, method and
\* headers, and the first of them in declared order.
Matching(id, mi, req) ==
    {ref \in UNION {{<<id, i, j>> : j \in 1..Len(mi.rules[i].paths)} :
                        i \in 1..Len(mi.rules)} :
        /\ RuleMatch(mi.rules[ref[2]], req)
        /\ matchPath(mi.rules[ref[2]].paths[ref[3]], req)
        /\ matchMethod(mi.rules[ref[2]].paths[ref[3]], req)
        /\ HeadersPass(mi.rules[ref[2]].paths[ref[3]], req)}

Before(a, b) == a[2] < b[2] \/ (a[2] = b[2] /\ a[3] <= b[3])

FirstMatch(id, mi, req) ==
    IF Matching(id, mi, req) = {} THEN NilPath
    ELSE CHOOSE a \in Matching(id, mi, req) : \A b \in Matching(id, mi, req) : Before(a, b)

\* Every filter of a chain allows the address; a nil chain allows it.
ChainAllows(chain, ip) ==
    chain.isNil \/ \A k \in 1..Len(chain.filters) : Allow(chain.filters[k], ip)

\* The server-level gate, the gate of every host-matching rule up to the
\* path's own rule, and the path's gate all let the request through.
GatesPass(mi, req, ref) ==
    /\ allowIP(mi.ipFilter, RealIP(req))
    /\ \A i \in 1..ref[2] :
          RuleMatch(mi.rules[i], req) => allowIP(mi.rules[i].ipFilter, RealIP(req))
    /\ allowIP(mi.rules[ref[2]].paths[ref[3]].ipFilter, RealIP(req))

Headerless(mi, ref) == Len(mi.rules[ref[2]].paths[ref[3]].headers) = 0

TerminalRoutes == {notFound, methodNotAllowed, badRequest, forbidden}

-----------------------------------------------------------------------------
(* Claims *)

\* C1: whenever search returns OK, the path it references is the first path,
\* in rule order and then path order, that matches the request on host,
\* path, method and headers; this holds for cache hits too.
C1_FirstMatchWins ==
    \A t \in Threads :
        (SearchDone(t) /\ ~th[t].panicked /\ ~th[t].route.isNil
            /\ th[t].route.code = StatusOK)
        => th[t].route.path = FirstMatch(th[t].mi, insts[th[t].mi], th[t].req)

\* C2: whatever the cache holds, search returns what the same rules return
\* with the cache disabled (a search that goes straight to the rule scan).
C2_CacheTransparent ==
    \A t \in Threads :
        SearchDone(t)
        => LET ref == SearchMiss(th[t].mi, insts[th[t].mi], th[t].req)
           IN th[t].route = ref.route /\ th[t].panicked = ref.panic

\* C3: when a request's first matching path has no header predicates and the
\* request passes the IP gates, the second of two consecutive searches for it
\* on one instance with a cache returns the verdict of the first, and
\* returns it from the cache probe.
C3_SecondFromCache ==
    \A t \in Threads :
        LET mi == insts[th[t].mi]
            ref == FirstMatch(th[t].mi, mi, th[t].req)
        IN (SearchDone(t) /\ prev.any /\ prev.req = th[t].req /\ prev.mi = th[t].mi
                /\ mi.hasCache /\ ref # NilPath /\ Headerless(mi, ref)
                /\ GatesPass(mi, th[t].req, ref))
           => /\ th[t].hit
              /\ th[t].route = prev.route
              /\ th[t].panicked = prev.panicked

\* C4: on a cache miss, a request whose first matching path has no header
\* predicates and that passes the server, rule and path IP gates gets OK
\* with that path.
C4_HeaderlessPathOK ==
    \A t \in Threads :
        LET mi == insts[th[t].mi]
            ref == FirstMatch(th[t].mi, mi, th[t].req)
        IN (SearchDone(t) /\ ~th[t].hit /\ ref # NilPath /\ Headerless(mi, ref)
                /\ GatesPass(mi, th[t].req, ref))
           => ~th[t].panicked /\ th[t].route = Route(StatusOK, ref)

\* C5: on a cache hit whose stored verdict is OK(p), search returns OK(p) when
\* every filter of p's chain allows the client and Forbidden otherwise.
C5_HitChecksChain ==
    \A t \in Threads :
        LET stored == getCacheRoute(insts[th[t].mi], th[t].req)
        IN (SearchDone(t) /\ th[t].hit /\ ~stored.isNil /\ stored.code = StatusOK)
           => /\ ~th[t].panicked
              /\ th[t].route =
                    IF ChainAllows(PathAt(insts, stored.path).ipFilterChain,
                                   RealIP(th[t].req))
                    THEN stored ELSE forbidden

\* C6: search never panics and returns a non-nil route that is NotFound,
\* MethodNotAllowed, BadRequest, Forbidden, or OK with a non-nil path.
C6_WellFormedVerdict ==
    \A t \in Threads :
        SearchDone(t)
        => /\ ~th[t].panicked
           /\ ~th[t].route.isNil
           /\ \/ th[t].route \in TerminalRoutes
              \/ th[t].route.code = StatusOK /\ th[t].route.path # NilPath

\* An instance reload has stored in mux.inst (or the one newMux stored).
Published(i) == ~(rl.pc = "build" /\ rl.inst = i)

\* The instance with its cache contents left out.
Tree(mi) == [mi EXCEPT !.cache = <<>>]

\* The writes so far to the Header objects an instance's paths point to.
HeaderWrites(w, mi) == IF mi.spec \in SpecIds THEN w[mi.spec] ELSE 0

\* The OK routes an instance's cache holds.
CachedOK(mi) == {mi.cache[k] : k \in {x \in DOMAIN mi.cache : mi.cache[x].code = StatusOK}}

\* C7: a request in flight runs on one instance that reload had stored: the
\* search reads and writes no other instance, and the rules, the IP filters
\* and the cached paths of that instance are the complete compilation of one
\* Spec, whatever reload does meanwhile.
C7_OneInstancePerRequest ==
    \A t \in Threads :
        InFlight(t)
        => LET mi == insts[th[t].mi]
               spec == SpecOf(mi.spec)
           IN /\ Published(th[t].mi)
              /\ th[t].used \subseteq {th[t].mi}
              /\ mi.rules = CompileRules(spec)
              /\ mi.ipFilter = newIPFilter(spec.ipFilter)
              /\ mi.ipFilterChan = newIPFilterChain(NilChain, spec.ipFilter)
              /\ mi.hasCache = (spec.cacheSize > 0)
              /\ \A r \in CachedOK(mi) : r.path[1] = th[t].mi

\* A search has returned on an instance that a reload of another Spec has
\* replaced in the meantime.
C7_Witness ==
    \E t \in Threads :
        /\ SearchDone(t) /\ ~th[t].hit
        /\ th[t].used = {th[t].mi}
        /\ th[t].mi # cur
        /\ th[t].mi > 1
        /\ insts[cur].spec # insts[th[t].mi].spec

\* C8: once an instance is published, no step of reload, search or serveHTTP
\* changes its rules, paths, compiled predicates, IP filters or chains, nor
\* writes to an object its paths point to; only its cache contents change.
C8_PublishedNeverMutated ==
    [][\A i \in 1..Len(insts) :
          Published(i)
          => /\ Tree(insts'[i]) = Tree(insts[i])
             /\ HeaderWrites(hdrInit', insts[i]) = HeaderWrites(hdrInit, insts[i])]_vars

\* C9: no request in flight holds an instance whose tracer reload has closed.
C9_TracerOpenWhileInFlight ==
    \A t \in Threads :
        InFlight(t) => insts[th[t].mi].tracer \notin closed

\* C10: every OK route in an instance's cache references a path of that
\* instance's own rule list, and the instance a reload publishes has an
\* empty cache.
C10_CacheOfOneInstance ==
    /\ [](\A i \in 1..Len(insts) : \A r \in CachedOK(insts[i]) :
              /\ r.path[1] = i
              /\ r.path[2] \in 1..Len(insts[i].rules)
              /\ r.path[3] \in 1..Len(insts[i].rules[r.path[2]].paths))
    /\ [][cur' # cur => insts'[cur'].cache = <<>>]_vars

\* A replaced instance and the published one both hold an OK route, each
\* for a path of its own.
C10_Witness ==
    \E i \in 1..Len(insts) :
        /\ i # cur /\ Published(i)
        /\ CachedOK(insts[i]) # {}
        /\ CachedOK(insts[cur]) # {}
        /\ \A r \in CachedOK(insts[i]) : r.path[1] = i
        /\ \A r \in CachedOK(insts[cur]) : r.path[1] = cur

-----------------------------------------------------------------------------
(* Header and query predicates as the routing rules state them *)

\* The Path of the Spec that a compiled path was built from.
SpecPath(mi, ref) == SpecOf(mi.spec).rules[ref[2]].paths[ref[3]]

\* The paths of an instance, as references.
PathRefs(id, mi) ==
    UNION {{<<id, i, j>> : j \in 1..Len(mi.rules[i].paths)} : i \in 1..Len(mi.rules)}

\* Host, path and method of the request match the path.
RouteMatch(mi, req, ref) ==
    /\ RuleMatch(mi.rules[ref[2]], req)
    /\ matchPath(mi.rules[ref[2]].paths[ref[3]], req)
    /\ matchMethod(mi.rules[ref[2]].paths[ref[3]], req)

\* Header aggregation: every predicate when matchAllHeader is set, any one
\* otherwise; no predicates, nothing to fail.
HeadersAgree(p, req) ==
    IF Len(p.headers) = 0 THEN TRUE
    ELSE IF p.matchAllHeader
         THEN \A k \in 1..Len(p.headers) : HeaderHit(p.headers[k], req)
         ELSE \E k \in 1..Len(p.headers) : HeaderHit(p.headers[k], req)

\* One query predicate against the first value of its key.
QueryHit(q, req) ==
    LET v == req.query[q.key]
    IN \/ v \in q.values
       \/ q.regexp # "" /\ MatchString(RegexpCompile(q.regexp), v)

\* Query aggregation: every predicate must match.
QueriesAgree(p, req) == \A k \in 1..Len(p.queries) : QueryHit(p.queries[k], req)

\* The paths a request selects: host, path, method, headers and queries.
Selected(id, mi, req) ==
    {ref \in PathRefs(id, mi) :
        /\ RouteMatch(mi, req, ref)
        /\ HeadersAgree(SpecPath(mi, ref), req)
        /\ QueriesAgree(SpecPath(mi, ref), req)}

\* C11: search returns OK for a path with matchAllHeader only if every header
\* predicate of the path matches the request; and when such a path matches
\* on host, path and method, the gates pass, some predicate fails and the
\* request selects no path, the verdict is BadRequest.
C11_MatchAllHeader ==
    \A t \in Threads :
        SearchDone(t)
        => LET mi == insts[th[t].mi]
               req == th[t].req
               all == {ref \in PathRefs(th[t].mi, mi) : SpecPath(mi, ref).matchAllHeader}
           IN /\ (~th[t].panicked /\ ~th[t].route.isNil /\ th[t].route.code = StatusOK
                      /\ th[t].route.path \in all)
                  => \A k \in 1..Len(SpecPath(mi, th[t].route.path).headers) :
                        HeaderHit(SpecPath(mi, th[t].route.path).headers[k], req)
              /\ (~th[t].hit /\ Selected(th[t].mi, mi, req) = {}
                      /\ \E ref \in all :
                            /\ RouteMatch(mi, req, ref)
                            /\ GatesPass(mi, req, ref)
                            /\ ~HeadersAgree(SpecPath(mi, ref), req))
                  => ~th[t].panicked /\ th[t].route = badRequest

\* The first path, in rule order and then path order, that a request selects.
FirstSelected(id, mi, req) ==
    IF Selected(id, mi, req) = {} THEN NilPath
    ELSE CHOOSE a \in Selected(id, mi, req) : \A b \in Selected(id, mi, req) : Before(a, b)

\* A path with header predicates of which any one has to match.
AnyHeaderPath(mi, ref) ==
    /\ Len(SpecPath(mi, ref).headers) > 0
    /\ ~SpecPath(mi, ref).matchAllHeader
    /\ Len(SpecPath(mi, ref).queries) = 0

\* C12: on a miss, when the first path a request selects has header
\* predicates (any one of which has to match) and the IP gates pass, search
\* returns OK with that path; when a path with such predicates matches on
\* host, path and method, none of its predicates matches and the request
\* selects no path, the mismatch is recorded: the verdict is BadRequest.
C12_AnyHeaderMatches ==
    \A t \in Threads :
        (SearchDone(t) /\ ~th[t].hit)
        => LET mi == insts[th[t].mi]
               req == th[t].req
               ref == FirstSelected(th[t].mi, mi, req)
           IN /\ (ref # NilPath /\ AnyHeaderPath(mi, ref) /\ GatesPass(mi, req, ref))
                  => ~th[t].panicked /\ th[t].route = Route(StatusOK, ref)
              /\ (Selected(th[t].mi, mi, req) = {}
                      /\ \E p \in PathRefs(th[t].mi, mi) :
                            /\ AnyHeaderPath(mi, p)
                            /\ RouteMatch(mi, req, p)
                            /\ GatesPass(mi, req, p))
                  => ~th[t].panicked /\ th[t].route = badRequest

\* C13: search returns OK for a path only if every query predicate of the
\* path matches the first value of its key in the request; and on a miss,
\* when a path fails on a query predicate alone and the request selects no
\* path, the verdict is BadRequest.
C13_QueriesMatch ==
    \A t \in Threads :
        SearchDone(t)
        => LET mi == insts[th[t].mi]
               req == th[t].req
           IN /\ (~th[t].panicked /\ ~th[t].route.isNil /\ th[t].route.code = StatusOK)
                  => QueriesAgree(SpecPath(mi, th[t].route.path), req)
              /\ (~th[t].hit /\ Selected(th[t].mi, mi, req) = {}
                      /\ \E p \in PathRefs(th[t].mi, mi) :
                            /\ RouteMatch(mi, req, p)
                            /\ HeadersAgree(SpecPath(mi, p), req)
                            /\ GatesPass(mi, req, p)
                            /\ ~QueriesAgree(SpecPath(mi, p), req))
                  => ~th[t].panicked /\ th[t].route = badRequest

\* The terminal verdicts search puts in the cache.
CachedTerminals == {notFound, methodNotAllowed}

\* C14: with the cache enabled, a NotFound or MethodNotAllowed that the rule
\* scan returns is stored under the request's key; a search that finds such
\* a verdict under its key returns it unchanged from the cache probe; and
\* the next search on the instance with the same host, method and path gets
\* the verdict of the one before from the cache.
C14_TerminalVerdictCached ==
    \A t \in Threads :
        SearchDone(t)
        => LET mi == insts[th[t].mi]
               stored == getCacheRoute(mi, th[t].req)
           IN /\ (~th[t].hit /\ ~th[t].panicked /\ mi.hasCache
                      /\ th[t].route \in CachedTerminals)
                  => stored = th[t].route
              /\ (th[t].hit /\ stored \in CachedTerminals)
                  => ~th[t].panicked /\ th[t].route = stored
              /\ (prev.any /\ prev.mi = th[t].mi /\ mi.hasCache
                      /\ CacheKey(prev.req) = CacheKey(th[t].req)
                      /\ ~prev.panicked /\ prev.route \in CachedTerminals)
                  => th[t].hit /\ ~th[t].panicked /\ th[t].route = prev.route

\* A MethodNotAllowed from the rule scan is returned from the cache to the
\* next request, which has the same host, method and path but is another
\* request.
C14_Witness ==
    \E t \in Threads :
        /\ SearchDone(t) /\ th[t].hit
        /\ th[t].route = methodNotAllowed
        /\ prev.any /\ ~prev.hit /\ prev.route = methodNotAllowed
        /\ prev.mi = th[t].mi
        /\ prev.req # th[t].req

CacheSizeOf(mi) == SpecOf(mi.spec).cacheSize

\* C15: an instance's cache never holds more entries than the cacheSize of
\* its Spec; with cacheSize 0 the instance has no cache, nothing is ever
\* stored for it and no search on it is answered from a cache.
C15_CacheBounded ==
    /\ \A i \in 1..Len(insts) :
          /\ Cardinality(DOMAIN insts[i].cache) <= CacheSizeOf(insts[i])
          /\ insts[i].hasCache = (CacheSizeOf(insts[i]) > 0)
    /\ \A t \in Threads :
          (th[t].mi # 0 /\ CacheSizeOf(insts[th[t].mi]) = 0) => ~th[t].hit

\* A full cache has taken the verdict of a search under a new key and has
\* dropped the entry of the search before.
C15_Witness ==
    \E t \in Threads :
        LET mi == insts[th[t].mi]
        IN /\ SearchDone(t) /\ ~th[t].hit
           /\ CacheKey(th[t].req) \in DOMAIN mi.cache
           /\ Cardinality(DOMAIN mi.cache) = CacheSizeOf(mi)
           /\ prev.any /\ ~prev.hit /\ prev.mi = th[t].mi
           /\ prev.route \in CachedTerminals
           /\ CacheKey(prev.req) \notin DOMAIN mi.cache

IsAcme(req) == HasPrefix(req.path, AcmePrefix)

\* C16: a request whose path begins with the ACME challenge prefix is handed
\* to the ACME responder only: it loads no instance, runs no search, gets no
\* route, status or handler from the mux, and nothing is stored in any
\* cache under its key.
C16_AcmeBypass ==
    /\ \A t \in Threads :
          (th[t].pc # "idle" /\ IsAcme(th[t].req))
          => /\ th[t].pc = "acme"
             /\ th[t].mi = 0 /\ th[t].used = {}
             /\ ~th[t].hit /\ th[t].route = NilRoute /\ ~th[t].panicked
             /\ th[t].status = 0 /\ th[t].handler = ""
    /\ \A i \in 1..Len(insts) : \A req \in Requests \cup SearchRequests :
          IsAcme(req) => CacheKey(req) \notin DOMAIN insts[i].cache

\* An ACME request is with the responder while an instance with rules, one
\* of which matches every host and path, is published.
C16_Witness ==
    \E t \in Threads :
        /\ th[t].pc = "acme" /\ IsAcme(th[t].req)
        /\ \E i \in 1..Len(insts[cur].rules) :
              /\ RuleMatch(insts[cur].rules[i], th[t].req)
              /\ \E j \in 1..Len(insts[cur].rules[i].paths) :
                    matchPath(insts[cur].rules[i].paths[j], th[t].req)

\* serveHTTP has written its status or handed the request over.
Served(t) == th[t].pc = "finish"

\* search returned a route that is OK.
GotOK(t) == ~th[t].panicked /\ ~th[t].route.isNil /\ th[t].route.code = StatusOK

\* C17: when search returns OK and the backend of the path is not
\* registered, serveHTTP writes 503, hands the request to no handler,
\* leaves its path as it came and has searched the one instance once.
C17_BackendNotFound ==
    \A t \in Threads :
        (Served(t) /\ GotOK(t)
            /\ PathAt(insts, th[t].route.path).backend \notin Handlers)
        => /\ th[t].status = StatusServiceUnavailable
           /\ th[t].handler = ""
           /\ th[t].path = th[t].req.path
           /\ th[t].used = {th[t].mi}

\* A request has been answered 503 after a search that returned OK.
C17_Witness ==
    \E t \in Threads :
        /\ Served(t) /\ GotOK(t)
        /\ th[t].status = StatusServiceUnavailable
        /\ PathAt(insts, th[t].route.path).backend = "gone"

\* C18: when search returns a verdict that is not OK, serveHTTP writes that
\* verdict's code (404, 405, 400 or 403), hands the request to no handler
\* and leaves its path as it came; when the verdict is OK and the status is
\* the 400 of a request that could not be wrapped, no handler is invoked.
C18_ShortCircuitStatus ==
    \A t \in Threads :
        Served(t)
        => /\ (~th[t].panicked /\ ~th[t].route.isNil /\ th[t].route.code # StatusOK)
               => /\ th[t].status = th[t].route.code
                  /\ th[t].status \in {StatusNotFound, StatusMethodNotAllowed,
                                        StatusBadRequest, StatusForbidden}
                  /\ th[t].handler = ""
                  /\ th[t].path = th[t].req.path
           /\ (GotOK(t) /\ th[t].status = StatusBadRequest) => th[t].handler = ""
           /\ th[t].handler # "" => (GotOK(t) /\ th[t].status = StatusOK)

\* A request denied by an IP filter has been answered 403.
C18_Witness ==
    \E t \in Threads :
        /\ Served(t) /\ ~th[t].panicked
        /\ th[t].route = forbidden
        /\ th[t].status = StatusForbidden
        /\ th[t].handler = ""

\* Two paths of one rule with the same predicates (their IP filters and
\* backends may differ).
Siblings(mi, a, b) ==
    /\ a[2] = b[2]
    /\ [SpecPath(mi, a) EXCEPT !.ipFilter = NoFilter, !.backend = ""]
          = [SpecPath(mi, b) EXCEPT !.ipFilter = NoFilter, !.backend = ""]

\* The server-level gate and the gate of every host-matching rule up to
\* rule i let the request through.
RuleGatesPass(mi, req, i) ==
    /\ allowIP(mi.ipFilter, RealIP(req))
    /\ \A k \in 1..i :
          RuleMatch(mi.rules[k], req) => allowIP(mi.rules[k].ipFilter, RealIP(req))

\* The selected paths whose own IP filter allows the client.
Admitted(id, mi, req) ==
    {ref \in Selected(id, mi, req) :
        allowIP(mi.rules[ref[2]].paths[ref[3]].ipFilter, RealIP(req))}

\* C19: on a miss, when the paths a request selects are two or more siblings
\* of one rule that differ in their IP filters, the server and rule gates
\* pass and the filter of some sibling allows the client, search returns OK
\* with the first sibling whose filter allows the client.
C19_SiblingByIPFilter ==
    \A t \in Threads :
        (SearchDone(t) /\ ~th[t].hit)
        => LET id == th[t].mi
               mi == insts[id]
               req == th[t].req
               sel == Selected(id, mi, req)
               adm == Admitted(id, mi, req)
           IN (/\ Cardinality(sel) >= 2
               /\ \A a \in sel : \A b \in sel : Siblings(mi, a, b)
               /\ \A a \in sel : RuleGatesPass(mi, req, a[2])
               /\ adm # {})
              => /\ ~th[t].panicked
                 /\ th[t].route =
                       Route(StatusOK, CHOOSE a \in adm : \A b \in adm : Before(a, b))

\* A rule whose only host predicate is a host_regexp that did not compile,
\* and a path whose only path predicate is such a path_regexp.
InvalidHostOnly(mr) == mr.host = EmptyStr /\ mr.hostRegexp # "" /\ mr.hostRE.isNil

InvalidPathOnly(mp) ==
    mp.path = EmptyStr /\ mp.pathPrefix = EmptyStr /\ mp.pathRegexp # "" /\ mp.pathRE.isNil

\* Every rule of the instance has only an invalid host_regexp as its host
\* predicate, or every path of every rule only an invalid path_regexp.
NothingValid(mi) ==
    \/ \A i \in 1..Len(mi.rules) : InvalidHostOnly(mi.rules[i])
    \/ \A i \in 1..Len(mi.rules) :
          \A j \in 1..Len(mi.rules[i].paths) : InvalidPathOnly(mi.rules[i].paths[j])

\* Some rule with only an invalid host_regexp holds a path with only an
\* invalid path_regexp.
HasInvalidOnly(mi) ==
    \E i \in 1..Len(mi.rules) :
        /\ InvalidHostOnly(mi.rules[i])
        /\ \E j \in 1..Len(mi.rules[i].paths) : InvalidPathOnly(mi.rules[i].paths[j])

\* reload has published the instance whole: one compiled rule for each rule
\* of its Spec object and one compiled path for each path.
PublishedWhole(mi) ==
    LET spec == SpecOf(mi.spec)
    IN /\ Len(mi.rules) = Len(spec.rules)
       /\ \A i \in 1..Len(mi.rules) :
             /\ ~mi.rules[i].isNil
             /\ Len(mi.rules[i].paths) = Len(spec.rules[i].paths)

\* C20 as stated: a host_regexp or path_regexp that does not compile never
\* matches.  A rule whose only host predicate is an invalid host_regexp matches
\* no request host, a path whose only path predicate is an invalid path_regexp
\* matches no request path, so a miss on an instance with nothing else ends
\* in NotFound; the instance is published whole all the same.
C20_InvalidRegexpNeverMatches ==
    /\ PublishedWhole(insts[cur])
    /\ \A t \in Threads :
          (SearchDone(t) /\ ~th[t].hit /\ ~th[t].panicked)
          => LET mi == insts[th[t].mi]
                 req == th[t].req
             IN /\ \A i \in 1..Len(mi.rules) :
                      /\ InvalidHostOnly(mi.rules[i]) => ~RuleMatch(mi.rules[i], req)
                      /\ \A j \in 1..Len(mi.rules[i].paths) :
                            InvalidPathOnly(mi.rules[i].paths[j])
                            => ~matchPath(mi.rules[i].paths[j], req)
                /\ (Len(mi.rules) > 0 /\ NothingValid(mi)) => th[t].route = notFound

\* C20 amended: a host_regexp or path_regexp that does not compile leaves the
\* compiled expression nil.  A rule whose only host predicate is an invalid
\* host_regexp matches every request host, a path whose only path predicate
\* is an invalid path_regexp matches every request path, so a miss on an
\* instance that holds such a path in such a rule never ends in NotFound; the
\* instance is published whole all the same.
C20_InvalidRegexpMatchesAll ==
    /\ PublishedWhole(insts[cur])
    /\ \A t \in Threads :
          (SearchDone(t) /\ ~th[t].hit /\ ~th[t].panicked)
          => LET mi == insts[th[t].mi]
                 req == th[t].req
             IN /\ \A i \in 1..Len(mi.rules) :
                      /\ InvalidHostOnly(mi.rules[i]) => RuleMatch(mi.rules[i], req)
                      /\ \A j \in 1..Len(mi.rules[i].paths) :
                            InvalidPathOnly(mi.rules[i].paths[j])
                            => matchPath(mi.rules[i].paths[j], req)
                /\ HasInvalidOnly(mi) => th[t].route # notFound

C20_Witness ==
    /\ HasInvalidOnly(insts[cur])
    /\ SearchDone("t1") /\ ~th["t1"].hit /\ ~th["t1"].panicked
    /\ th["t1"].mi = cur
    /\ th["t1"].route = methodNotAllowed

\* serveHTTP went past the lookup of the backend: the rewrite step has run.
PastRewrite(t) ==
    /\ Served(t) /\ GotOK(t)
    /\ th[t].status \in {StatusOK, StatusBadRequest}

\* The rewrite as the routing rules state it: nothing without a target, the
\* target for a literal path, the target in place of the prefix, the regular
\* expression's substitution.
Rewritten(mp, path) ==
    IF mp.rewriteTarget = EmptyStr THEN path
    ELSE IF mp.path # EmptyStr /\ mp.path = path THEN mp.rewriteTarget
    ELSE IF mp.pathPrefix # EmptyStr /\ HasPrefix(path, mp.pathPrefix)
         THEN mp.rewriteTarget \o SubSeq(path, Len(mp.pathPrefix) + 1, Len(path))
    ELSE IF ~mp.pathRE.isNil THEN ReplaceAllString(mp.pathRE, path, mp.rewriteTarget)
    ELSE path

\* C21: after an OK verdict the request path handed on is the rewritten one:
\* unchanged without a rewrite_target, the target for a literal path, the
\* target in place of the matched prefix for a path_prefix, the regular
\* expression's substitution for a compiled path_regexp.
C21_RewriteStep ==
    \A t \in Threads :
        PastRewrite(t)
        => th[t].path = Rewritten(PathAt(insts, th[t].route.path), th[t].req.path)

\* The request was handed to the handler: wrapRequest has returned it.
Wrapped(t) == Served(t) /\ GotOK(t) /\ th[t].status = StatusOK /\ th[t].handler # ""

\* The value of a header that came in several lines: the values joined by
\* commas.
RECURSIVE Joined(_)
Joined(vs) ==
    IF Len(vs) = 0 THEN EmptyStr
    ELSE IF Len(vs) = 1 THEN vs[1]
    ELSE Cat(vs[1], <<",">>, Joined(Tail(vs)))

\* C22: X-Forwarded-For is stamped only when x_forwarded_for is enabled: an
\* absent header becomes the real IP, a header value that holds the real IP
\* is left as it is, otherwise the IP is appended after a comma; stamping
\* the stamped header again for the same real IP changes nothing.
C22_XForwardedFor ==
    \A t \in Threads :
        Wrapped(t)
        => LET spec == SpecOf(insts[th[t].mi].spec)
               ip == <<RealIP(th[t].req)>>
               before == th[t].req.xff
               v == Joined(before)
               after == Joined(th[t].xff)
           IN IF ~spec.xForwardedFor THEN th[t].xff = before
              ELSE /\ Len(before) = 0 => after = ip
                   /\ (Len(before) > 0 /\ Contains(v, ip)) => after = v
                   /\ (Len(before) > 0 /\ ~Contains(v, ip)) => after = Cat(v, <<",">>, ip)
                   /\ Joined(appendXForwardedFor(th[t].xff, RealIP(th[t].req))) = after

\* C23 as stated: on an instance without rules, the initial one of newMux
\* included, every search ends in NotFound.
C23_EmptyRulesNotFound ==
    \A t \in Threads :
        (SearchDone(t) /\ Len(insts[th[t].mi].rules) = 0)
        => (~th[t].panicked /\ th[t].route = notFound)

\* C23 amended: on an instance without rules, the initial one of newMux
\* included, a search that misses the cache ends in Forbidden when the
\* server-level IP filter denies the client and in NotFound otherwise, and a
\* search that hits the cache ends in NotFound.
C23_EmptyRulesServerGate ==
    \A t \in Threads :
        (SearchDone(t) /\ Len(insts[th[t].mi].rules) = 0)
        => LET mi == insts[th[t].mi]
           IN /\ ~th[t].panicked
              /\ th[t].route =
                    IF ~th[t].hit /\ ~allowIP(mi.ipFilter, RealIP(th[t].req))
                    THEN forbidden ELSE notFound

C23_Witness ==
    /\ SearchDone("t1") /\ ~th["t1"].hit
    /\ Len(insts[th["t1"].mi].rules) = 0
    /\ ~insts[th["t1"].mi].ipFilter.isNil
    /\ th["t1"].route = forbidden

\* A cache entry the routing rules admit: NotFound, MethodNotAllowed, or OK
\* with a path of the instance that has no header and no query predicates.
CacheableEntry(mi, r) ==
    \/ r \in CachedTerminals
    \/ /\ ~r.isNil /\ r.code = StatusOK /\ r.path # NilPath
       /\ Len(SpecPath(mi, r.path).headers) = 0
       /\ Len(SpecPath(mi, r.path).queries) = 0

\* C24: every entry of every instance's cache is NotFound, MethodNotAllowed,
\* or OK with a path that has no header predicates and no query predicates;
\* BadRequest and Forbidden are never stored.
C24_CacheEntries ==
    \A i \in 1..Len(insts) :
        \A k \in DOMAIN insts[i].cache : CacheableEntry(insts[i], insts[i].cache[k])

\* The server-level gate and the gate of every host-matching rule let the
\* request through: the scan is not ended by a rule.
RulesOpen(mi, req) == RuleGatesPass(mi, req, Len(mi.rules))

\* The candidates: the paths that match the request on host, path and method.
Candidates(id, mi, req) == {ref \in PathRefs(id, mi) : RouteMatch(mi, req, ref)}

\* Host and path match, the method does not.
MethodMissed(id, mi, req) ==
    {ref \in PathRefs(id, mi) :
        /\ RuleMatch(mi.rules[ref[2]], req)
        /\ matchPath(mi.rules[ref[2]].paths[ref[3]], req)
        /\ ~matchMethod(mi.rules[ref[2]].paths[ref[3]], req)}

\* C25: on a miss where the gates of the rules pass and every candidate path
\* fails on its header predicates, the verdict is BadRequest when there is
\* such a candidate, and it is not put in the cache; else MethodNotAllowed
\* when a path matched host and path but not the method; else NotFound.  A
\* method mismatch on one path does not keep a later path from being tried.
C25_FallbackVerdict ==
    \A t \in Threads :
        (SearchDone(t) /\ ~th[t].hit)
        => LET id == th[t].mi
               mi == insts[id]
               req == th[t].req
               cand == Candidates(id, mi, req)
           IN (/\ RulesOpen(mi, req)
               /\ \A ref \in cand : ~HeadersAgree(SpecPath(mi, ref), req))
              => /\ ~th[t].panicked
                 /\ th[t].route =
                       IF cand # {} THEN badRequest
                       ELSE IF MethodMissed(id, mi, req) # {} THEN methodNotAllowed
                       ELSE notFound
                 /\ cand # {} => getCacheRoute(mi, req).isNil

\* The rules of an instance that match the host of a request, and the first.
HostRules(mi, req) == {i \in 1..Len(mi.rules) : RuleMatch(mi.rules[i], req)}

FirstHostRule(mi, req) == CHOOSE i \in HostRules(mi, req) : \A k \in HostRules(mi, req) : i <= k

\* The server-level gate passes and the own filter of the first rule that
\* matches the host denies the client.
RuleDenies(mi, req) ==
    /\ allowIP(mi.ipFilter, RealIP(req))
    /\ HostRules(mi, req) # {}
    /\ ~mi.rules[FirstHostRule(mi, req)].ipFilter.isNil
    /\ ~Allow(mi.rules[FirstHostRule(mi, req)].ipFilter, RealIP(req))

SelectedInAllowedRules(id, mi, req) ==
    {ref \in Selected(id, mi, req) :
        /\ allowIP(mi.rules[ref[2]].ipFilter, RealIP(req))
        /\ allowIP(mi.rules[ref[2]].paths[ref[3]].ipFilter, RealIP(req))}

\* Every rule that matches the host of the request declares the same host.
OneHost(mi, req) ==
    \A i \in HostRules(mi, req) : \A k \in HostRules(mi, req) :
        mi.rules[i].host # EmptyStr /\ mi.rules[i].host = mi.rules[k].host

\* C27: on a miss, when the rules that match the request declare one host,
\* the filter of the first of them denies the client and a later one, whose
\* filter allows the client, has a path the request selects, search does not
\* stop at the first rule: it returns OK with the first such path.
C27_SecondRuleSameHost ==
    \A t \in Threads :
        (SearchDone(t) /\ ~th[t].hit)
        => LET id == th[t].mi
               mi == insts[id]
               req == th[t].req
               sel == SelectedInAllowedRules(id, mi, req)
           IN (RuleDenies(mi, req) /\ OneHost(mi, req) /\ sel # {})
              => /\ ~th[t].panicked
                 /\ th[t].route =
                       Route(StatusOK, CHOOSE a \in sel : \A b \in sel : Before(a, b))

\* C28: on a miss, when the gates of the server and the rules pass and the
\* own filter of the first path the request selects denies the client,
\* search returns Forbidden from that path's gate, whatever later paths and
\* rules hold, and Forbidden is not stored in the cache.
C28_PathGateForbidden ==
    \A t \in Threads :
        (SearchDone(t) /\ ~th[t].hit)
        => LET id == th[t].mi
               mi == insts[id]
               req == th[t].req
               ref == FirstSelected(id, mi, req)
           IN (/\ ref # NilPath
               /\ RuleGatesPass(mi, req, ref[2])
               /\ ~allowIP(mi.rules[ref[2]].paths[ref[3]].ipFilter, RealIP(req)))
              => /\ ~th[t].panicked
                 /\ th[t].route = forbidden
                 /\ th[t].at = "path"
                 /\ getCacheRoute(mi, req) # forbidden

\* C29: a search that returns Forbidden from the server-level gate or from
\* the gate of a rule leaves the caches as they were: no entry is added and
\* none is replaced.
C29_GateLeavesCache ==
    [][\A t \in Threads :
          (th[t].pc = "scan" /\ th'[t].pc = "route"
              /\ th'[t].route = forbidden /\ th'[t].at \in {"server", "rule"})
          => insts' = insts]_vars

\* The IP filters an instance holds: the server's, the rules', the paths'.
FiltersOf(id, mi) ==
    {mi.ipFilter}
    \cup {mi.rules[i].ipFilter : i \in 1..Len(mi.rules)}
    \cup {mi.rules[ref[2]].paths[ref[3]].ipFilter : ref \in PathRefs(id, mi)}

Declared(fs) == SelectSeq(fs, LAMBDA f : ~f.isNil)

ChainOfDeclared(fs) == ChainOf(Declared(fs))

\* C31: in every instance reload has published, the chain of each path is
\* the server-level filter, the filter of its rule and its own filter, in
\* that order and each only if declared; the chain of each rule is the
\* server-level filter and then the rule's; a node with no filter declared
\* at its level or above has the nil chain.
C31_ChainsResolved ==
    \A id \in 1..Len(insts) :
        Published(id)
        => LET mi == insts[id]
               spec == SpecOf(mi.spec)
           IN /\ mi.ipFilterChan = ChainOfDeclared(<<spec.ipFilter>>)
              /\ \A i \in 1..Len(mi.rules) :
                    /\ mi.rules[i].ipFilterChain =
                          ChainOfDeclared(<<spec.ipFilter, spec.rules[i].ipFilter>>)
                    /\ \A j \in 1..Len(mi.rules[i].paths) :
                          mi.rules[i].paths[j].ipFilterChain =
                              ChainOfDeclared(<<spec.ipFilter, spec.rules[i].ipFilter,
                                                spec.rules[i].paths[j].ipFilter>>)

\* The published instance holds a path with a chain of three filters and,
\* a replaced one, a path with the nil chain.
C31_Witness ==
    /\ \E ref \in PathRefs(cur, insts[cur]) :
          /\ ~PathAt(insts, ref).ipFilterChain.isNil
          /\ Len(PathAt(insts, ref).ipFilterChain.filters) = 3
    /\ \E id \in 1..Len(insts) :
          /\ id # cur /\ Published(id)
          /\ \E ref \in PathRefs(id, insts[id]) : PathAt(insts, ref).ipFilterChain.isNil

\* A chain that is not nil and holds no filter.
EmptyChain == [isNil |-> FALSE, filters |-> <<>>]

\* The chains and the filter specs newIPFilterChain can be given: those the
\* instances hold, the nil and the empty chain, the nil spec.
ChainsHeld ==
    {NilChain, EmptyChain}
    \cup {insts[id].ipFilterChan : id \in 1..Len(insts)}
    \cup UNION {{insts[id].rules[i].ipFilterChain : i \in 1..Len(insts[id].rules)} :
                  id \in 1..Len(insts)}

FilterSpecsHeld ==
    {NoFilter} \cup UNION {FiltersOf(id, insts[id]) : id \in 1..Len(insts)}

\* C32: newIPFilterChain(parent, child) is nil exactly when the parent is
\* nil or empty and the child spec is nil; otherwise it is a chain of the
\* parent's filters in order and then the child's filter if there is one.
\* The parent is left as it was: building the chains of a rule and its paths
\* changes no chain that is already built.
C32_NewChain ==
    /\ [](\A parent \in ChainsHeld : \A child \in FilterSpecsHeld :
            LET base == IF parent.isNil THEN <<>> ELSE parent.filters
                res == newIPFilterChain(parent, child)
            IN /\ res.isNil <=> (Len(base) = 0 /\ child.isNil)
               /\ ~res.isNil => res.filters = base \o Declared(<<child>>))
    /\ [][\A id \in 1..Len(insts) :
            /\ insts'[id].ipFilterChan = insts[id].ipFilterChan
            /\ \A i \in 1..Len(insts[id].rules) :
                  ~insts[id].rules[i].isNil => insts'[id].rules[i] = insts[id].rules[i]]_vars

\* An instance holds a rule chain built from a parent chain and a child
\* spec, and one built from the nil parent and the nil spec.
C32_Witness ==
    /\ \E id \in 1..Len(insts) : \E i \in 1..Len(insts[id].rules) :
          /\ ~insts[id].rules[i].isNil
          /\ ~insts[id].ipFilterChan.isNil
          /\ Len(insts[id].rules[i].ipFilterChain.filters) = 2
    /\ \E id \in 2..Len(insts) : \E i \in 1..Len(insts[id].rules) :
          /\ ~insts[id].rules[i].isNil
          /\ insts[id].rules[i].ipFilterChain.isNil

\* The request host with its port stripped.
HostName(h) == StripPort(h)

\* The rule's host predicates, said of the request's host name.
HostAdmits(mr, req) ==
    \/ mr.host = EmptyStr /\ mr.hostRE.isNil
    \/ mr.host # EmptyStr /\ mr.host = HostName(req.host)
    \/ ~mr.hostRE.isNil /\ MatchString(mr.hostRE, HostName(req.host))

\* C33: a rule matches a request exactly when it declares neither a literal
\* host nor a compiled host regex, or the request host with its port stripped
\* is the literal host, or the compiled host regex matches the port-stripped
\* host.  A miss that no gate stopped ends in NotFound when no rule matches
\* so, and ends past a path of a rule (nil route, BadRequest or
\* MethodNotAllowed) only when a rule matches so, also for a request to
\* host:port and a rule that declares the host alone.
C33_RuleMatch ==
    \A t \in Threads :
        SearchDone(t)
        => LET mi == insts[th[t].mi]
               req == th[t].req
               admitting == {i \in 1..Len(mi.rules) : HostAdmits(mi.rules[i], req)}
           IN /\ \A i \in 1..Len(mi.rules) :
                    RuleMatch(mi.rules[i], req) <=> (i \in admitting)
              /\ (~th[t].hit /\ ~th[t].panicked)
                  => /\ (admitting = {} /\ th[t].route # forbidden)
                            => th[t].route = notFound
                     /\ th[t].route \in {NilRoute, badRequest, methodNotAllowed}
                            => admitting # {}

\* A request to a:80 went through the paths of a rule that declares the
\* host a and came back from one of them.
C33_Witness ==
    \E t \in Threads :
        /\ SearchDone(t) /\ ~th[t].hit /\ ~th[t].panicked
        /\ th[t].req.host = hostAPort
        /\ th[t].route = NilRoute
        /\ \A i \in 1..Len(insts[th[t].mi].rules) :
              /\ insts[th[t].mi].rules[i].host = hostA
              /\ insts[th[t].mi].rules[i].hostRE.isNil

\* The three ways a declared predicate of a path admits a request path.
PathPredicateAdmits(mp, req) ==
    \/ mp.path # EmptyStr /\ mp.path = req.path
    \/ mp.pathPrefix # EmptyStr /\ HasPrefix(req.path, mp.pathPrefix)
    \/ ~mp.pathRE.isNil /\ MatchString(mp.pathRE, req.path)

\* The path declares none of path, path_prefix and path_regexp.
DeclaresNoPath(mp) ==
    mp.path = EmptyStr /\ mp.pathPrefix = EmptyStr /\ mp.pathRegexp = ""

\* The path holds no path, no path_prefix and no compiled path_regexp.
HoldsNoPath(mp) ==
    mp.path = EmptyStr /\ mp.pathPrefix = EmptyStr /\ mp.pathRE.isNil

\* The paths of the rules matching the request that hold no path predicate
\* or hold one that admits the request path.
AdmittedPaths(mi, req) ==
    UNION {{<<i, j>> : j \in {k \in 1..Len(mi.rules[i].paths) :
                                LET mp == mi.rules[i].paths[k]
                                IN HoldsNoPath(mp) \/ PathPredicateAdmits(mp, req)}} :
           i \in {r \in 1..Len(mi.rules) : RuleMatch(mi.rules[r], req)}}

\* C34 as stated: matchPath is true exactly when the path declares none of
\* path, path_prefix and path_regexp, or the literal path is the request
\* path, or the request path starts with path_prefix, or the compiled
\* path_regexp matches the request path.
C34_MatchPathDeclared ==
    \A t \in Threads :
        SearchDone(t)
        => LET mi == insts[th[t].mi]
               req == th[t].req
           IN \A i \in 1..Len(mi.rules) : \A j \in 1..Len(mi.rules[i].paths) :
                 LET mp == mi.rules[i].paths[j]
                 IN matchPath(mp, req) <=> (DeclaresNoPath(mp) \/ PathPredicateAdmits(mp, req))

\* C34 amended: matchPath is true exactly when the path holds no path, no
\* path_prefix and no compiled path_regexp (a path_regexp that did not
\* compile counts as none), or the literal path is the request path, or the
\* request path starts with path_prefix, or the compiled path_regexp matches
\* the request path.  A miss that no gate stopped ends in NotFound when no
\* path of a matching rule matches so, and ends past a path only when one
\* does.
C34_MatchPathCompiled ==
    \A t \in Threads :
        SearchDone(t)
        => LET mi == insts[th[t].mi]
               req == th[t].req
               admitted == AdmittedPaths(mi, req)
           IN /\ \A i \in 1..Len(mi.rules) : \A j \in 1..Len(mi.rules[i].paths) :
                    LET mp == mi.rules[i].paths[j]
                    IN matchPath(mp, req) <=> (HoldsNoPath(mp) \/ PathPredicateAdmits(mp, req))
              /\ (~th[t].hit /\ ~th[t].panicked)
                  => /\ (admitted = {} /\ th[t].route # forbidden)
                            => th[t].route = notFound
                     /\ th[t].route \in {NilRoute, badRequest, methodNotAllowed}
                            => admitted # {}

\* A GET went through a path that declares PUT and whose only path
\* predicate is a path_regexp that did not compile, and came back
\* MethodNotAllowed: the path matched the request path.
C34_Witness ==
    \E t \in Threads :
        /\ SearchDone(t) /\ ~th[t].hit /\ ~th[t].panicked
        /\ th[t].route = methodNotAllowed
        /\ \A i \in 1..Len(insts[th[t].mi].rules) :
              \A j \in 1..Len(insts[th[t].mi].rules[i].paths) :
                 InvalidPathOnly(insts[th[t].mi].rules[i].paths[j])

\* The tuple the route cache is said to be keyed by.
KeyTuple(req) == <<req.host, req.method, req.path>>

\* C35: the cache key is injective on (Host, Method, Path): two searches on
\* one instance read or write the same cache entry only if their requests
\* have the same Host, Method and URL path, so a search that is answered
\* from the entry the search before it wrote has that search's tuple.
C35_KeyInjective ==
    \A t \in Threads :
        (SearchDone(t) /\ prev.any /\ prev.mi = th[t].mi)
        => /\ CacheKey(prev.req) = CacheKey(th[t].req)
                => KeyTuple(prev.req) = KeyTuple(th[t].req)
           /\ (th[t].hit /\ KeyTuple(prev.req) # KeyTuple(th[t].req))
                => getCacheRoute(insts[th[t].mi], prev.req)
                     # getCacheRoute(insts[th[t].mi], th[t].req)

-----------------------------------------------------------------------------
(* engine.Gateway: the pipeline instances and their run loops, the         *)
(* pipeline lifecycle callbacks, Stop and Close.  A panic unwinds the       *)
(* goroutine that raised it and runs its deferred Unlock; the other         *)
(* goroutines are followed on, as they run when the caller recovers.        *)

PipelineName == "p"
Parallelisms == {1, 2}

\* make(chan error, 1)
DoneCap == 1

\* newPipelineInstance and `go p.run()`: both channels open, the loop at its
\* select.  terminates, closes and doneCloses count the calls of terminate,
\* of instance.Close and of close(pi.done).
newPipelineInstance ==
    [pc |-> "select", stopClosed |-> FALSE, doneClosed |-> FALSE,
     terminates |-> 0, runErr |-> FALSE, closes |-> 0, doneCloses |-> 0]

\* A loop that calls Run again after Run has returned an error.
AfterRunRetry(err) == "select"

\* pipelineInstance.run after instance.Run() has returned: break on an
\* error, else back to the select.
AfterRun(err) == IF err THEN "close" ELSE "select"

\* The select of the loop: break when stop is closed, else call Run.
LoopSelect(i) ==
    /\ i \in 1..Len(pis)
    /\ pis[i].pc = "select"
    /\ pis' = [pis EXCEPT ![i].pc = IF pis[i].stopClosed THEN "close" ELSE "run"]
    /\ UNCHANGED <<gwLock, pipelines, gwDone, call, calls, got, muxvars, hsvars>>

\* instance.Run() returns, with an error or without.
RunReturn(i, err) ==
    /\ i \in 1..Len(pis)
    /\ pis[i].pc = "run"
    /\ pis' = [pis EXCEPT ![i].pc = AfterRun(err), ![i].runErr = err]
    /\ UNCHANGED <<gwLock, pipelines, gwDone, call, calls, got, muxvars, hsvars>>

\* pi.instance.Close() is called, and returns.
InstanceClose(i) ==
    /\ i \in 1..Len(pis)
    /\ pis[i].pc = "close"
    /\ pis' = [pis EXCEPT ![i].pc = "closing", ![i].closes = @ + 1]
    /\ UNCHANGED <<gwLock, pipelines, gwDone, call, calls, got, muxvars, hsvars>>

InstanceCloseReturn(i) ==
    /\ i \in 1..Len(pis)
    /\ pis[i].pc = "closing"
    /\ pis' = [pis EXCEPT ![i].pc = "closed"]
    /\ UNCHANGED <<gwLock, pipelines, gwDone, call, calls, got, muxvars, hsvars>>

\* close(pi.done), the last statement of run.
CloseDone(i) ==
    /\ i \in 1..Len(pis)
    /\ pis[i].pc = "closed"
    /\ pis' = [pis EXCEPT ![i].pc = "exited", ![i].doneClosed = TRUE,
                          ![i].doneCloses = @ + 1]
    /\ UNCHANGED <<gwLock, pipelines, gwDone, call, calls, got, muxvars, hsvars>>

LoopStep(i) ==
    \/ LoopSelect(i)
    \/ \E err \in BOOLEAN : RunReturn(i, err)
    \/ InstanceClose(i)
    \/ InstanceCloseReturn(i)
    \/ CloseDone(i)

\* An operation may be called: the caller is idle and calls are left.
MayCall(c) == call[c].op = "" /\ calls < MaxCalls

Return(c, op, out) == [call EXCEPT ![c] = [CallIdle EXCEPT !.last = <<op, out>>]]

PipesOf(name) == IF name \in DOMAIN pipelines THEN pipelines[name] ELSE <<>>

\* The loop of launchPipeline after it has made n instances (GetInstance
\* failed for the next one, or n is the parallelism): each is started and
\* appended to the pipeline's list.
LaunchedPis(n) == pis \o [k \in 1..n |-> newPipelineInstance]

LaunchedPipelines(n) ==
    IF n = 0 THEN pipelines
    ELSE (PipelineName :> (PipesOf(PipelineName) \o [k \in 1..n |-> Len(pis) + k]))
         @@ pipelines

\* launchPipeline, under the lock from its first to its last statement.
launchPipeline(c, par, n) ==
    /\ MayCall(c)
    /\ gwLock = "free"
    /\ n \in 0..par
    /\ Len(pis) + n <= MaxInstances
    /\ pis' = LaunchedPis(n)
    /\ pipelines' = LaunchedPipelines(n)
    /\ calls' = calls + 1
    /\ call' = Return(c, "launchPipeline", "returned")
    /\ UNCHANGED <<gwLock, gwDone, got, muxvars, hsvars>>

\* terminatePipeline takes the lock and looks the pipeline up; relaunchPipeline
\* starts with the same call.  Without an entry terminatePipeline returns.
TerminateBegin(c, op) ==
    /\ MayCall(c)
    /\ gwLock = "free"
    /\ calls' = calls + 1
    /\ IF PipelineName \in DOMAIN pipelines
       THEN /\ gwLock' = c
            /\ call' = [call EXCEPT ![c] = [CallIdle EXCEPT !.op = op, !.pc = "terminate",
                                               !.i = 1, !.pipes = pipelines[PipelineName]]]
       ELSE /\ gwLock' = gwLock
            /\ call' = IF op = "relaunchPipeline"
                       THEN [call EXCEPT ![c] = [CallIdle EXCEPT !.op = op, !.pc = "launch"]]
                       ELSE Return(c, op, "returned")
    /\ UNCHANGED <<pipelines, pis, gwDone, got, muxvars, hsvars>>

\* Gateway.Stop takes the lock, stops the cluster (err is what gc.Stop
\* returned) and ranges over the pipelines.
StopBegin(c, err) ==
    /\ MayCall(c)
    /\ gwLock = "free"
    /\ calls' = calls + 1
    /\ gwLock' = c
    /\ call' = [call EXCEPT ![c] =
                  [CallIdle EXCEPT !.op = "Stop", !.err = err,
                                   !.pipes = PipesOf(PipelineName),
                                   !.i = 1,
                                   !.pc = IF Len(PipesOf(PipelineName)) = 0
                                          THEN "send" ELSE "terminate"]]
    /\ UNCHANGED <<pipelines, pis, gwDone, got, muxvars, hsvars>>

\* pi.terminate(): instance.Stop() and close(pi.stop), which panics on a
\* closed channel; the deferred Unlock of the caller runs.
Terminate(c) ==
    /\ call[c].pc = "terminate"
    /\ LET i == call[c].pipes[call[c].i]
       IN IF pis[i].stopClosed
          THEN /\ pis' = [pis EXCEPT ![i].terminates = @ + 1]
               /\ gwLock' = "free"
               /\ call' = Return(c, call[c].op, "panic: close of closed channel")
          ELSE /\ pis' = [pis EXCEPT ![i].terminates = @ + 1, ![i].stopClosed = TRUE]
               /\ gwLock' = gwLock
               /\ call' = [call EXCEPT ![c].pc = "wait"]
    /\ UNCHANGED <<pipelines, gwDone, calls, got, muxvars, hsvars>>

\* The receive from the channel terminate returned: terminatePipeline waits
\* for done, Stop for done or for its timer.  After the last instance
\* terminatePipeline deletes the entry and unlocks.
Wait(c) ==
    /\ call[c].pc = "wait"
    /\ call[c].op = "Stop" \/ pis[call[c].pipes[call[c].i]].doneClosed
    /\ IF call[c].i < Len(call[c].pipes)
       THEN /\ call' = [call EXCEPT ![c].pc = "terminate", ![c].i = @ + 1]
            /\ UNCHANGED <<gwLock, pipelines>>
       ELSE IF call[c].op = "Stop"
       THEN /\ call' = [call EXCEPT ![c].pc = "send"]
            /\ UNCHANGED <<gwLock, pipelines>>
       ELSE /\ pipelines' = [n \in DOMAIN pipelines \ {PipelineName} |-> pipelines[n]]
            /\ gwLock' = "free"
            /\ call' = IF call[c].op = "relaunchPipeline"
                       THEN [call EXCEPT ![c] = [CallIdle EXCEPT !.op = call[c].op,
                                                                  !.pc = "launch"]]
                       ELSE Return(c, call[c].op, "returned")
    /\ UNCHANGED <<pis, gwDone, calls, got, muxvars, hsvars>>

\* The launchPipeline call of relaunchPipeline.
Relaunch(c, par, n) ==
    /\ call[c].pc = "launch"
    /\ gwLock = "free"
    /\ n \in 0..par
    /\ Len(pis) + n <= MaxInstances
    /\ pis' = LaunchedPis(n)
    /\ pipelines' = LaunchedPipelines(n)
    /\ call' = Return(c, call[c].op, "returned")
    /\ UNCHANGED <<gwLock, gwDone, calls, got, muxvars, hsvars>>

\* gw.done <- err, the last statement of Stop: it panics on a closed
\* channel and blocks while the buffer is full.
StopSend(c) ==
    /\ call[c].pc = "send"
    /\ IF gwDone.closed
       THEN /\ gwDone' = gwDone
            /\ call' = Return(c, "Stop", "panic: send on closed channel")
       ELSE /\ Len(gwDone.buf) < DoneCap
            /\ gwDone' = [gwDone EXCEPT !.buf = Append(@, call[c].err)]
            /\ call' = Return(c, "Stop", "returned")
    /\ gwLock' = "free"
    /\ UNCHANGED <<pipelines, pis, calls, got, muxvars, hsvars>>

\* Gateway.Close: close(gw.done), without the lock.
GatewayClose(c) ==
    /\ MayCall(c)
    /\ calls' = calls + 1
    /\ IF gwDone.closed
       THEN /\ gwDone' = gwDone
            /\ call' = Return(c, "Close", "panic: close of closed channel")
       ELSE /\ gwDone' = [gwDone EXCEPT !.closed = TRUE]
            /\ call' = Return(c, "Close", "returned")
    /\ UNCHANGED <<gwLock, pipelines, pis, got, muxvars, hsvars>>

\* The caller of Run receives from the channel Run returned, once.
Receive ==
    /\ got = <<>>
    /\ Len(gwDone.buf) > 0 \/ gwDone.closed
    /\ got' = <<IF Len(gwDone.buf) > 0 THEN gwDone.buf[1] ELSE "closed">>
    /\ gwDone' = [gwDone EXCEPT !.buf = IF Len(@) > 0 THEN Tail(@) ELSE @]
    /\ UNCHANGED <<gwLock, pipelines, pis, call, calls, muxvars, hsvars>>

NextGateway ==
    \/ \E i \in 1..MaxInstances : LoopSelect(i)
    \/ \E i \in 1..MaxInstances, err \in BOOLEAN : RunReturn(i, err)
    \/ \E i \in 1..MaxInstances : InstanceClose(i)
    \/ \E i \in 1..MaxInstances : InstanceCloseReturn(i)
    \/ \E i \in 1..MaxInstances : CloseDone(i)
    \/ \E c \in Callers, par \in Parallelisms, n \in 0..2 : launchPipeline(c, par, n)
    \/ \E c \in Callers, op \in {"terminatePipeline", "relaunchPipeline"} :
          TerminateBegin(c, op)
    \/ \E c \in Callers, err \in {"nil", "err"} : StopBegin(c, err)
    \/ \E c \in Callers : Terminate(c)
    \/ \E c \in Callers : Wait(c)
    \/ \E c \in Callers, par \in Parallelisms, n \in 0..2 : Relaunch(c, par, n)
    \/ \E c \in Callers : StopSend(c)
    \/ \E c \in Callers : GatewayClose(c)
    \/ Receive

SpecGateway == Init /\ [][NextGateway]_vars

\* The run loops beside one caller of the Gateway's operations.
NextLoops ==
    \/ \E i \in 1..MaxInstances : LoopSelect(i)
    \/ \E i \in 1..MaxInstances, err \in BOOLEAN : RunReturn(i, err)
    \/ \E i \in 1..MaxInstances : InstanceClose(i)
    \/ \E i \in 1..MaxInstances : InstanceCloseReturn(i)
    \/ \E i \in 1..MaxInstances : CloseDone(i)
    \/ \E par \in Parallelisms, n \in 0..2 : launchPipeline("c1", par, n)
    \/ \E op \in {"terminatePipeline", "relaunchPipeline"} : TerminateBegin("c1", op)
    \/ \E err \in {"nil", "err"} : StopBegin("c1", err)
    \/ Terminate("c1")
    \/ Wait("c1")
    \/ \E par \in Parallelisms, n \in 0..2 : Relaunch("c1", par, n)
    \/ StopSend("c1")
    \/ GatewayClose("c1")
    \/ Receive

\* The run loops are goroutines of their own: each is scheduled again and
\* again, and the calls it makes return.
SpecGatewayLive ==
    /\ Init
    /\ [][NextLoops]_vars
    /\ \A i \in 1..MaxInstances : WF_vars(LoopStep(i))

\* C36: whatever sequence and interleaving of launchPipeline,
\* terminatePipeline, relaunchPipeline and Stop runs, terminate is called at
\* most once on each pipelineInstance, so no caller panics closing a stop
\* channel that is closed.
C36_TerminateOnce ==
    /\ \A i \in 1..Len(pis) : pis[i].terminates <= 1
    /\ \A c \in Callers : call[c].last[2] # "panic: close of closed channel"
                          \/ call[c].last[1] = "Close"

\* C37: for every pipelineInstance whose loop was started, once terminate
\* has been called or Run has returned an error (and the Run in progress
\* returns), the loop calls Run no more, calls instance.Close once and then
\* closes done once; done is never closed before Close has returned.
C37_LoopEnds ==
    /\ [](\A i \in 1..Len(pis) :
            /\ pis[i].closes <= 1
            /\ pis[i].doneCloses <= 1
            /\ pis[i].doneClosed => pis[i].closes = 1 /\ pis[i].pc = "exited"
            /\ pis[i].pc \in {"close", "closing", "closed", "exited"}
                  => pis[i].runErr \/ pis[i].stopClosed)
    /\ [][\A i \in 1..Len(pis) :
            /\ pis[i].pc \in {"close", "closing", "closed", "exited"} => pis'[i].pc # "run"
            /\ (pis[i].runErr /\ pis[i].pc # "run") => pis'[i].pc \notin {"select", "run"}
            /\ pis'[i].doneClosed /\ ~pis[i].doneClosed => pis[i].pc = "closed"]_vars
    /\ \A i \in 1..MaxInstances :
          (i <= Len(pis) /\ (pis[i].terminates > 0 \/ pis[i].runErr))
          ~> (i <= Len(pis) /\ pis[i].pc = "exited" /\ pis[i].closes = 1 /\ pis[i].doneCloses = 1)

\* A loop ended after terminate was called on it: its Run calls returned
\* without an error, it called Close and closed done.
C37_Witness ==
    \E i \in 1..Len(pis) :
        /\ pis[i].pc = "exited" /\ pis[i].doneClosed
        /\ pis[i].terminates = 1 /\ ~pis[i].runErr

\* C38: Stop always returns and delivers one value on the done channel: it
\* does not panic on the done channel nor on a stop channel, and it does not
\* stay blocked at its send holding the lock, whatever calls of Close, Stop,
\* terminatePipeline and launchPipeline came before it or run beside it.
C38_StopDelivers ==
    \A c \in Callers :
        /\ call[c].last[1] = "Stop" => call[c].last[2] = "returned"
        /\ ~(call[c].pc = "send" /\ ~gwDone.closed /\ Len(gwDone.buf) = DoneCap
             /\ got # <<>>)

-----------------------------------------------------------------------------
(* plugins.httpServerConstructor and the serve goroutine it starts *)

\* The constructor's early returns: the config is of another type, or
\* net.Listen fails; "" is neither.
ConstructFailures == {"", "config", "listen"}

\* The httpServer of one constructor call: pc is the constructor's place,
\* gpc the serve goroutine's, doneClosed the state of the unbuffered done
\* channel, err what the select received, lnClosed whether the constructor
\* closed h.listener, hclosed is h.closed, result what the constructor returned.
NewServer(https, fail) ==
    [https |-> https,
     pc |-> IF fail = "" THEN "select" ELSE "returned",
     gpc |-> IF fail = "" THEN "serving" ELSE "none",
     doneClosed |-> FALSE, err |-> FALSE, lnClosed |-> FALSE, hclosed |-> FALSE,
     result |-> IF fail = "" THEN "" ELSE "error"]

\* A constructor that returns without closing done.
deferCloseNever(s) == s

\* defer close(done): runs when the constructor returns.
deferClose(s) == [s EXCEPT !.doneClosed = TRUE]

\* server_startup_notifier: done <- e, whose panic on a closed channel the
\* deferred recover() takes.
server_startup_notifier(doneIsClosed) == IF doneIsClosed THEN "recovered" ELSE "sent"

\* The constructor up to its select: the listener is made and the serve
\* goroutine started.
Construct(https, fail) ==
    /\ Len(servers) < MaxServers
    /\ servers' = Append(servers, NewServer(https, fail))
    /\ UNCHANGED <<muxvars, gwvars>>

\* server.Serve or ServeTLS returns (its error is never nil); the goroutine
\* goes on to report it.
ServeReturn(k) ==
    /\ k \in 1..Len(servers)
    /\ servers[k].gpc = "serving"
    /\ servers' = [servers EXCEPT ![k].gpc = "sending"]
    /\ UNCHANGED <<muxvars, gwvars>>

\* The constructor's select: it receives when the goroutine waits at its
\* send (parked), else it takes the default.
Select(k, parked) ==
    /\ k \in 1..Len(servers)
    /\ servers[k].pc = "select"
    /\ servers' =
          IF servers[k].gpc = "sending" /\ parked
          THEN [servers EXCEPT ![k].pc = "failed", ![k].err = TRUE,
                               ![k].gpc = server_startup_notifier(servers[k].doneClosed)]
          ELSE [servers EXCEPT ![k].pc = "passed"]
    /\ UNCHANGED <<muxvars, gwvars>>

\* err != nil: the listener is closed, h.closed set, nil and err returned.
ReturnError(k) ==
    /\ k \in 1..Len(servers)
    /\ servers[k].pc = "failed"
    /\ servers' = [servers EXCEPT ![k] =
                     deferClose([@ EXCEPT !.pc = "returned", !.lnClosed = TRUE,
                                          !.hclosed = TRUE, !.result = "error"])]
    /\ UNCHANGED <<muxvars, gwvars>>

\* return h, nil.
ReturnServer(k) ==
    /\ k \in 1..Len(servers)
    /\ servers[k].pc = "passed"
    /\ servers' = [servers EXCEPT ![k] =
                     deferClose([@ EXCEPT !.pc = "returned", !.result = "server"])]
    /\ UNCHANGED <<muxvars, gwvars>>

\* The goroutine's send once done is closed: it panics, at once or where it
\* waited, and the notifier recovers.  While done is open and the
\* constructor is past its select the send waits.
SendOnClosed(k) ==
    /\ k \in 1..Len(servers)
    /\ servers[k].gpc = "sending"
    /\ servers[k].doneClosed
    /\ servers' = [servers EXCEPT ![k].gpc = server_startup_notifier(TRUE)]
    /\ UNCHANGED <<muxvars, gwvars>>

\* httpServer.Close on a server the constructor returned.
HTTPServerClose(k) ==
    /\ k \in 1..Len(servers)
    /\ servers[k].result = "server"
    /\ ~servers[k].hclosed
    /\ servers' = [servers EXCEPT ![k].hclosed = TRUE]
    /\ UNCHANGED <<muxvars, gwvars>>

ConstructorStep(k) ==
    \/ \E parked \in BOOLEAN : Select(k, parked)
    \/ ReturnError(k)
    \/ ReturnServer(k)

NextServers ==
    \/ \E https \in BOOLEAN, fail \in ConstructFailures : Construct(https, fail)
    \/ \E k \in 1..MaxServers : ServeReturn(k)
    \/ \E k \in 1..MaxServers, parked \in BOOLEAN : Select(k, parked)
    \/ \E k \in 1..MaxServers : ReturnError(k)
    \/ \E k \in 1..MaxServers : ReturnServer(k)
    \/ \E k \in 1..MaxServers : SendOnClosed(k)
    \/ \E k \in 1..MaxServers : HTTPServerClose(k)

\* The constructor runs on and returns; the serve goroutine is scheduled
\* when its send can proceed.
SpecServers ==
    /\ Init
    /\ [][NextServers]_vars
    /\ \A k \in 1..MaxServers : WF_vars(ConstructorStep(k)) /\ WF_vars(SendOnClosed(k))

\* C39: the serve goroutine's report on done never waits for ever and never
\* ends in a panic that is not recovered, however it interleaves with the
\* constructor's select and its deferred close(done); and a constructor that
\* returns a server has not closed the listener, while one that received
\* the report returns the error.
C39_ServeReport ==
    /\ [](\A k \in 1..Len(servers) :
            /\ servers[k].gpc \in {"none", "serving", "sending", "sent", "recovered"}
            /\ servers[k].result = "server" => ~servers[k].lnClosed /\ ~servers[k].err
            /\ servers[k].gpc = "sent" <=> servers[k].err
            /\ servers[k].pc = "returned" <=> servers[k].result # ""
            /\ (servers[k].pc = "returned" /\ servers[k].gpc # "none")
                  => servers[k].doneClosed)
    /\ \A k \in 1..MaxServers :
          (k <= Len(servers) /\ servers[k].gpc = "sending")
          ~> (k <= Len(servers) /\ servers[k].gpc \in {"sent", "recovered"})

\* A constructor returned its server, and the goroutine's later report met
\* the closed channel and was recovered; another constructor received the
\* report in its select and returned the error.
C39_Witness ==
    /\ \E k \in 1..Len(servers) :
          servers[k].result = "server" /\ servers[k].gpc = "recovered"
    /\ \E k \in 1..Len(servers) :
          servers[k].result = "error" /\ servers[k].gpc = "sent" /\ servers[k].lnClosed

====
